---------------------------- MODULE Spec2Model ----------------------------
(***************************************************************************)
(* Model of the password-based encryption envelope of buhbuh               *)
(* (src/src/utils/crypto-utils.ts).                                        *)
(*                                                                         *)
(* Bytes are integers 0..255, a Uint8Array is a sequence of bytes, and a   *)
(* JavaScript string is the sequence of its UTF-16 code units.             *)
(*                                                                         *)
(* The Web Crypto primitives the module calls (PBKDF2-HMAC-SHA-256 and     *)
(* AES-256-GCM) are platform code.  They are modelled as deterministic     *)
(* keyed functions with the structure of the real ones: PBKDF2 maps        *)
(* (password bytes, salt) to 32 key bytes; AES-GCM encrypts by XOR with a  *)
(* keystream of (key, iv) and appends a 16-byte tag over (key, iv, body);  *)
(* decryption recomputes the tag and rejects a mismatch.                   *)
(***************************************************************************)
EXTENDS Integers, Sequences, FiniteSets, TLC

(***************************************************************************)
(* Program constants (crypto-utils.ts lines 46-50).                        *)
(***************************************************************************)
KEY_LENGTH == 32

ITERATIONS == 100000

NONCE_LENGTH == 24

SALT_LENGTH == 16

\* AES-GCM uses a 12-byte IV: usedNonce.slice(0, 12)
IV_LENGTH == 12

\* length of the AES-GCM authentication tag (Web Crypto default, 128 bits)
TAG_LENGTH == 16

(***************************************************************************)
(* Bounds of the model.                                                    *)
(***************************************************************************)
\* longest plaintext (in bytes, or in code points for text)
MaxPlainLen == 1

\* number of distinct values the secure-random source can return
NumDraws == 2

\* number of encrypt calls in the specification of concurrent calls
MaxCalls == 2

\* longest byte field of an arbitrary envelope handed to the codec
MaxFieldLen == 3

(***************************************************************************)
(* Bytes and bit operations.                                               *)
(***************************************************************************)
Byte == 0..255

RECURSIVE Pow2(_)
Pow2(n) == IF n = 0 THEN 1 ELSE 2 * Pow2(n - 1)

RECURSIVE Xor(_, _)
\* a ^ b on non-negative integers
Xor(a, b) ==
    IF a = 0 THEN b
    ELSE IF b = 0 THEN a
    ELSE (((a % 2) + (b % 2)) % 2) + 2 * Xor(a \div 2, b \div 2)

\* Uint8Array.prototype.slice(from, to), 0-based, to exclusive, clamped
Slice(arr, from, to) ==
    LET t == IF to > Len(arr) THEN Len(arr) ELSE to
        f == IF from > t THEN t ELSE from
    IN  [i \in 1..(t - f) |-> arr[f + i]]

\* arr.slice(from): to the end
SliceFrom(arr, from) == Slice(arr, from, Len(arr))

(***************************************************************************)
(* The keyed mixing function standing for the platform's SHA-256 / AES     *)
(* cores: Absorb folds input bytes into two lanes (polynomials modulo two  *)
(* primes), Squeeze reads n output bytes from the lanes.                   *)
(***************************************************************************)
RECURSIVE Fold(_, _, _, _, _)
\* h folded with bytes[i], bytes[i+1], ...: h * m + byte + 1 modulo p
Fold(h, bytes, i, m, p) ==
    \* (h < 0 never holds: the test makes TLC evaluate h at every step)
    IF i > Len(bytes) \/ h < 0 THEN h
    ELSE Fold(((h * m) + bytes[i] + 1) % p, bytes, i + 1, m, p)

Absorb(st, bytes) ==
    << Fold(st[1], bytes, 1, 1031, 1048573), Fold(st[2], bytes, 1, 1033, 1048571) >>

SqueezeByte(st, j) ==
    LET a == ((st[1] * (j + 3)) + st[2]) % 1048573
        b == ((st[2] * (j + 5)) + st[1]) % 1048571
    IN  (a + (b \div 16)) % 256

Squeeze(st, n) == [j \in 1..n |-> SqueezeByte(st, j)]

\* a byte sequence followed by its length: unambiguous concatenation
Framed(bytes) == Append(bytes, Len(bytes) % 256)

(***************************************************************************)
(* TextEncoder.encode: UTF-8 of a string given as Unicode scalar values.   *)
(***************************************************************************)
Utf8Of(cp) ==
    IF cp < 128 THEN << cp >>
    ELSE IF cp < 2048 THEN << 192 + (cp \div 64), 128 + (cp % 64) >>
    ELSE IF cp < 65536
         THEN << 224 + (cp \div 4096), 128 + ((cp \div 64) % 64), 128 + (cp % 64) >>
         ELSE << 240 + (cp \div 262144), 128 + ((cp \div 4096) % 64),
                 128 + ((cp \div 64) % 64), 128 + (cp % 64) >>

RECURSIVE TextEncode(_)
TextEncode(s) == IF s = << >> THEN << >> ELSE Utf8Of(Head(s)) \o TextEncode(Tail(s))

(***************************************************************************)
(* Platform primitives.                                                    *)
(***************************************************************************)
\* crypto.subtle.importKey + deriveKey + exportKey: PBKDF2(password, salt)
Pbkdf2(passwordData, salt, iterations, keyLen) ==
    Squeeze(Absorb(<< 11, iterations % 1009 >>, Framed(passwordData) \o Framed(salt)),
            keyLen)

\* the cipher state AES-GCM sets up from the key and the IV
GcmContext(key, iv) == Absorb(<< 23, 29 >>, Framed(key) \o Framed(iv))

\* AES-CTR keystream
KeyStream(ctx, n) == Squeeze(ctx, n)

\* GCM tag over the encrypted body
GcmTag(ctx, body) == Squeeze(Absorb(<< ctx[2], ctx[1] >>, Framed(body)), TAG_LENGTH)

\* crypto.subtle.encrypt({name: 'AES-GCM', iv}, key, data): body followed by tag
AesGcmEncrypt(key, iv, data) ==
    LET ctx  == GcmContext(key, iv)
        ks   == KeyStream(ctx, Len(data))
        body == [i \in 1..Len(data) |-> Xor(data[i], ks[i])]
    IN  body \o GcmTag(ctx, body)

Ok(v) == [ok |-> TRUE, value |-> v, stage |-> "", error |-> ""]

Fail(stage, error) == [ok |-> FALSE, value |-> << >>, stage |-> stage, error |-> error]

\* crypto.subtle.decrypt({name: 'AES-GCM', iv}, key, data): rejects with an
\* OperationError when the iv is empty, the data is shorter than the tag, or
\* the tag does not verify
AesGcmDecrypt(key, iv, data) ==
    IF Len(iv) = 0 \/ Len(data) < TAG_LENGTH THEN Fail("cipher", "OperationError")
    ELSE LET n    == Len(data) - TAG_LENGTH
             body == Slice(data, 0, n)
             tag  == SliceFrom(data, n)
             ctx  == GcmContext(key, iv)
             ks   == KeyStream(ctx, n)
         IN  IF tag # GcmTag(ctx, body) THEN Fail("cipher", "OperationError")
             ELSE Ok([i \in 1..n |-> Xor(body[i], ks[i])])

(***************************************************************************)
(* The secure-random source.  crypto.getRandomValues(new Uint8Array(n))    *)
(* returns one of NumDraws arrays of n bytes; draws d and d+1 (d odd)      *)
(* agree on their first IV_LENGTH bytes and differ after them.             *)
(***************************************************************************)
RandomBytes(d, n) ==
    [i \in 1..n |-> IF i <= IV_LENGTH
                    THEN ((((d + 1) \div 2) * 89) + (i * 41)) % 256
                    ELSE ((d * 53) + (i * 17)) % 256]

RandomPool(n) == { RandomBytes(d, n) : d \in 1..NumDraws }

(***************************************************************************)
(* crypto-utils.ts                                                         *)
(***************************************************************************)
\* the module constant crypto (lines 29-31): globalThis.crypto when the runtime
\* has one, else null.  "null": no crypto object; "noSubtle": a crypto object
\* without the subtle primitives; "full": the Web Crypto API.
VARIABLE crypto

Runtimes == {"null", "noSubtle", "full"}

\* throw new Error('Web Crypto API not available')
Unavailable == Fail("runtime", "Web Crypto API not available")

\* an optional Uint8Array argument
Absent == [given |-> FALSE, bytes |-> << >>]

Given(b) == [given |-> TRUE, bytes |-> b]

\* String.prototype.trim on the samples: leading and trailing spaces removed
RECURSIVE TrimLeft(_)
TrimLeft(w) == IF w # << >> /\ Head(w) = 32 THEN TrimLeft(Tail(w)) ELSE w

RECURSIVE TrimRight(_)
TrimRight(w) ==
    IF w # << >> /\ w[Len(w)] = 32 THEN TrimRight(SubSeq(w, 1, Len(w) - 1)) ELSE w

\* a defect: the password is trimmed before the key is derived
deriveKey_Trimmed(password, salt, random) ==
    IF crypto # "full" THEN Unavailable
    ELSE LET usedSalt     == IF salt.given THEN salt.bytes ELSE random
             passwordData == TextEncode(TrimLeft(TrimRight(password)))
         IN  Ok([key  |-> Pbkdf2(passwordData, usedSalt, ITERATIONS, KEY_LENGTH),
                 salt |-> usedSalt])

\* a defect: no random salt is generated, a zero-filled array is used
deriveKey_FixedSalt(password, salt, random) ==
    IF crypto # "full" THEN Unavailable
    ELSE LET usedSalt     == IF salt.given THEN salt.bytes ELSE [i \in 1..SALT_LENGTH |-> 0]
             passwordData == TextEncode(password)
         IN  Ok([key  |-> Pbkdf2(passwordData, usedSalt, ITERATIONS, KEY_LENGTH),
                 salt |-> usedSalt])

\* a defect: the salt is returned but not given to PBKDF2
deriveKey_SaltUnused(password, salt, random) ==
    IF crypto # "full" THEN Unavailable
    ELSE LET usedSalt     == IF salt.given THEN salt.bytes ELSE random
             passwordData == TextEncode(password)
         IN  Ok([key  |-> Pbkdf2(passwordData, << >>, ITERATIONS, KEY_LENGTH),
                 salt |-> usedSalt])

\* a defect: only the crypto object is tested, so that without subtle the
\* first use of crypto.subtle throws a TypeError
deriveKey_SubtleUnchecked(password, salt, random) ==
    IF crypto = "null" THEN Unavailable
    ELSE IF crypto = "noSubtle" THEN Fail("runtime", "TypeError")
    ELSE LET usedSalt     == IF salt.given THEN salt.bytes ELSE random
             passwordData == TextEncode(password)
         IN  Ok([key  |-> Pbkdf2(passwordData, usedSalt, ITERATIONS, KEY_LENGTH),
                 salt |-> usedSalt])

\* deriveKey(password, salt?): throws when crypto?.subtle is missing (line 62);
\* `random` is what getRandomValues returns when it is called (a Uint8Array is
\* truthy even when empty, so a given salt is always used)
deriveKey(password, salt, random) ==
    IF crypto # "full" THEN Unavailable
    ELSE LET usedSalt     == IF salt.given THEN salt.bytes ELSE random
             passwordData == TextEncode(password)
         IN  Ok([key  |-> Pbkdf2(passwordData, usedSalt, ITERATIONS, KEY_LENGTH),
                 salt |-> usedSalt])

\* a defect: 16 bytes of the nonce are taken as the IV
IvOf_Long(nonce) == Slice(nonce, 0, 16)

\* a defect: only 8 bytes of the nonce are taken as the IV
IvOf_Short(nonce) == Slice(nonce, 0, 8)

\* the IV handed to AES-GCM: nonce.slice(0, 12)
IvOf(nonce) == Slice(nonce, 0, IV_LENGTH)

\* a defect: only the IV bytes of the nonce are prepended
secretBox_IvPrefixed(plaintext, key, nonce, random) ==
    IF crypto # "full" THEN Unavailable
    ELSE LET usedNonce  == IF nonce.given THEN nonce.bytes ELSE random
             ciphertext == AesGcmEncrypt(key, IvOf(usedNonce), plaintext)
         IN  Ok(IvOf(usedNonce) \o ciphertext)

\* secretBox(plaintext, key, nonce?): the nonce followed by the AES-GCM output
secretBox(plaintext, key, nonce, random) ==
    IF crypto # "full" THEN Unavailable
    ELSE LET usedNonce  == IF nonce.given THEN nonce.bytes ELSE random
             ciphertext == AesGcmEncrypt(key, IvOf(usedNonce), plaintext)
         IN  Ok(usedNonce \o ciphertext)

\* a defect: a length check of its own rejects short input with another error
secretBoxOpen_LengthChecked(ciphertext, key) ==
    LET nonce     == Slice(ciphertext, 0, NONCE_LENGTH)
        encrypted == SliceFrom(ciphertext, NONCE_LENGTH)
    IN  IF crypto # "full" THEN Unavailable
        ELSE IF Len(encrypted) < TAG_LENGTH THEN Fail("parse", "RangeError")
        ELSE AesGcmDecrypt(key, IvOf(nonce), encrypted)

\* a defect: the cipher is run without authentication (the tag is dropped and
\* the rest is decrypted as a plain stream)
secretBoxOpen_Unauthenticated(ciphertext, key) ==
    LET nonce     == Slice(ciphertext, 0, NONCE_LENGTH)
        encrypted == SliceFrom(ciphertext, NONCE_LENGTH)
        n         == IF Len(encrypted) > TAG_LENGTH THEN Len(encrypted) - TAG_LENGTH ELSE 0
        ks        == KeyStream(GcmContext(key, IvOf(nonce)), n)
    IN  IF crypto # "full" THEN Unavailable
        ELSE IF Len(encrypted) < TAG_LENGTH THEN Fail("cipher", "OperationError")
        ELSE Ok([i \in 1..n |-> Xor(encrypted[i], ks[i])])

\* a defect: when the tag does not verify, what the key stream yields is
\* returned all the same
secretBoxOpen_BestEffort(ciphertext, key) ==
    LET nonce     == Slice(ciphertext, 0, NONCE_LENGTH)
        encrypted == SliceFrom(ciphertext, NONCE_LENGTH)
        n         == Len(encrypted) - TAG_LENGTH
        ks        == KeyStream(GcmContext(key, IvOf(nonce)), n)
    IN  IF crypto # "full" THEN Unavailable
        ELSE IF Len(encrypted) < TAG_LENGTH THEN Fail("cipher", "OperationError")
        ELSE IF AesGcmDecrypt(key, IvOf(nonce), encrypted).ok
             THEN AesGcmDecrypt(key, IvOf(nonce), encrypted)
        ELSE Ok([i \in 1..n |-> Xor(encrypted[i], ks[i])])

\* secretBoxOpen(ciphertext, key)
secretBoxOpen(ciphertext, key) ==
    LET nonce     == Slice(ciphertext, 0, NONCE_LENGTH)
        encrypted == SliceFrom(ciphertext, NONCE_LENGTH)
    IN  IF crypto # "full" THEN Unavailable
        ELSE AesGcmDecrypt(key, IvOf(nonce), encrypted)

\* a plaintext argument: string | Uint8Array
Bytes(b) == [type |-> "bytes", val |-> b]

Text(s) == [type |-> "string", val |-> s]

\* typeof plaintext === 'string' ? new TextEncoder().encode(plaintext) : plaintext
DataOf(plaintext) ==
    IF plaintext.type = "string" THEN TextEncode(plaintext.val) ELSE plaintext.val

\* a defect: the envelope carries only the IV bytes of the nonce
encrypt_IvAsNonce(plaintext, password, saltDraw, nonceDraw) ==
    LET data        == DataOf(plaintext)
        dk          == deriveKey(password, Absent, saltDraw)
        secretBoxed == secretBox(data, dk.value.key, Given(nonceDraw), << >>)
    IN  IF crypto = "null" THEN Unavailable
        ELSE IF ~dk.ok THEN dk
        ELSE IF ~secretBoxed.ok THEN secretBoxed
        ELSE Ok([ciphertext |-> SliceFrom(secretBoxed.value, NONCE_LENGTH),
                 nonce |-> IvOf(nonceDraw), salt |-> dk.value.salt])

\* a defect: the nonce prefix is cut at the IV length instead of NONCE_LENGTH
encrypt_WrongSlice(plaintext, password, saltDraw, nonceDraw) ==
    LET data        == DataOf(plaintext)
        dk          == deriveKey(password, Absent, saltDraw)
        secretBoxed == secretBox(data, dk.value.key, Given(nonceDraw), << >>)
    IN  IF crypto = "null" THEN Unavailable
        ELSE IF ~dk.ok THEN dk
        ELSE IF ~secretBoxed.ok THEN secretBoxed
        ELSE Ok([ciphertext |-> SliceFrom(secretBoxed.value, IV_LENGTH),
                 nonce |-> nonceDraw, salt |-> dk.value.salt])

\* encrypt(plaintext, password) with the two arrays getRandomValues returns;
\* throws when crypto is null (line 202) or when deriveKey or secretBox throw
encrypt(plaintext, password, saltDraw, nonceDraw) ==
    LET data        == DataOf(plaintext)
        dk          == deriveKey(password, Absent, saltDraw)
        nonce       == nonceDraw
        secretBoxed == secretBox(data, dk.value.key, Given(nonce), << >>)
        ciphertext  == SliceFrom(secretBoxed.value, NONCE_LENGTH)
    IN  IF crypto = "null" THEN Unavailable
        ELSE IF ~dk.ok THEN dk
        ELSE IF ~secretBoxed.ok THEN secretBoxed
        ELSE Ok([ciphertext |-> ciphertext, nonce |-> nonce, salt |-> dk.value.salt])

\* a defect: an empty ciphertext is answered with an empty plaintext
decrypt_EmptyShortcut(encryptedData, password) ==
    LET dk        == deriveKey(password, Given(encryptedData.salt), << >>)
        toDecrypt == encryptedData.nonce \o encryptedData.ciphertext
    IN  IF ~dk.ok THEN dk
        ELSE IF encryptedData.ciphertext = << >> THEN Ok(<< >>)
        ELSE secretBoxOpen(toDecrypt, dk.value.key)

\* decrypt(encryptedData, password)
decrypt(encryptedData, password) ==
    LET dk        == deriveKey(password, Given(encryptedData.salt), << >>)
        toDecrypt == encryptedData.nonce \o encryptedData.ciphertext
    IN  IF ~dk.ok THEN dk
        ELSE secretBoxOpen(toDecrypt, dk.value.key)

(***************************************************************************)
(* The envelope codec: base64 (btoa / atob) and JSON text.  Strings are    *)
(* sequences of code units.                                                *)
(***************************************************************************)
\* the base64 alphabet: A-Z a-z 0-9 + /
B64Char(v) ==
    IF v < 26 THEN 65 + v
    ELSE IF v < 52 THEN 97 + (v - 26)
    ELSE IF v < 62 THEN 48 + (v - 52)
    ELSE IF v = 62 THEN 43 ELSE 47

IsB64Char(c) ==
    \/ c \in 65..90
    \/ c \in 97..122
    \/ c \in 48..57
    \/ c = 43
    \/ c = 47

B64Val(c) ==
    IF c \in 65..90 THEN c - 65
    ELSE IF c \in 97..122 THEN (c - 97) + 26
    ELSE IF c \in 48..57 THEN (c - 48) + 52
    ELSE IF c = 43 THEN 62 ELSE 63

\* btoa(binary): binary is a string of code units 0..255; '=' (61) pads
btoa(binary) ==
    LET n == Len(binary)
        at(k) == IF k <= n THEN binary[k] ELSE 0
    IN  [k \in 1..(4 * ((n + 2) \div 3)) |->
            LET g   == (k - 1) \div 4
                pos == (k - 1) % 4
                b0  == at((3 * g) + 1)
                b1  == at((3 * g) + 2)
                b2  == at((3 * g) + 3)
            IN  IF pos = 0 THEN B64Char(b0 \div 4)
                ELSE IF pos = 1 THEN B64Char(((b0 % 4) * 16) + (b1 \div 16))
                ELSE IF pos = 2
                     THEN IF (3 * g) + 2 > n THEN 61
                          ELSE B64Char(((b1 % 16) * 4) + (b2 \div 64))
                ELSE IF (3 * g) + 3 > n THEN 61 ELSE B64Char(b2 % 64)]

\* ASCII whitespace: tab, line feed, form feed, carriage return, space
IsNotAsciiWhitespace(c) == c \notin {9, 10, 12, 13, 32}

\* atob(data) on a string: the forgiving base64 decoding of the platform.
\* Whitespace is removed; when the length is a multiple of 4, one or two
\* trailing '=' are removed; a length of 1 modulo 4 or a character outside the
\* alphabet throws InvalidCharacterError.
atob(data) ==
    LET t1 == SelectSeq(data, IsNotAsciiWhitespace)
        n1 == Len(t1)
        t2 == IF n1 % 4 = 0 /\ n1 > 0 /\ t1[n1] = 61
              THEN IF t1[n1 - 1] = 61 THEN SubSeq(t1, 1, n1 - 2)
                   ELSE SubSeq(t1, 1, n1 - 1)
              ELSE t1
        m  == Len(t2)
    IN  IF m % 4 = 1 \/ (\E k \in 1..m : ~IsB64Char(t2[k]))
        THEN Fail("parse", "InvalidCharacterError")
        ELSE Ok([k \in 1..((m * 6) \div 8) |->
                    LET q  == ((8 * (k - 1)) \div 6) + 1
                        r  == (8 * (k - 1)) % 6
                        v1 == B64Val(t2[q])
                        v2 == B64Val(t2[q + 1])
                    IN  IF r = 0 THEN (v1 * 4) + (v2 \div 16)
                        ELSE IF r = 2 THEN ((v1 % 16) * 16) + (v2 \div 4)
                        ELSE ((v1 % 4) * 64) + v2])

\* String.fromCharCode(byte), one code unit per byte
FromCharCodes(arr) == [i \in 1..Len(arr) |-> arr[i]]

\* a defect: the byte is masked to 7 bits before it is encoded
arrayToBase64_SevenBit(arr) == btoa([i \in 1..Len(arr) |-> arr[i] % 128])

\* arrayToBase64(arr) (lines 248-254)
arrayToBase64(arr) == btoa(FromCharCodes(arr))

\* stringToBytes(s) (lines 267-273): bytes[i] = s.charCodeAt(i), stored in a
\* Uint8Array
stringToBytes(s) == [i \in 1..Len(s) |-> s[i] % 256]

\* encryptedDataToBase64(data)
encryptedDataToBase64(data) ==
    [ciphertext |-> arrayToBase64(data.ciphertext),
     nonce      |-> arrayToBase64(data.nonce),
     salt       |-> arrayToBase64(data.salt)]

\* JavaScript values met by the codec
Undefined == [t |-> "undefined", s |-> << >>, members |-> << >>]

Null == [t |-> "null", s |-> << >>, members |-> << >>]

Str(s) == [t |-> "string", s |-> s, members |-> << >>]

\* an object, its members a sequence of << name, value >> in text order
Obj(members) == [t |-> "object", s |-> << >>, members |-> members]

\* the names "ciphertext", "nonce", "salt"
KeyCiphertext == <<99, 105, 112, 104, 101, 114, 116, 101, 120, 116>>

KeyNonce == <<110, 111, 110, 99, 101>>

KeySalt == <<115, 97, 108, 116>>

\* the object encryptedDataToBase64 returns, as a JavaScript value
ObjOfBase64(b) ==
    Obj(<< << KeyCiphertext, Str(b.ciphertext) >>, << KeyNonce, Str(b.nonce) >>,
           << KeySalt, Str(b.salt) >> >>)

\* value.name : the last member of that name, undefined when there is none
\* (and for a string, which has no such property)
GetProp(value, name) ==
    LET hits == { k \in 1..Len(value.members) : value.members[k][1] = name }
    IN  IF hits = {} THEN Undefined
        ELSE value.members[CHOOSE k \in hits : \A j \in hits : j <= k][2]

\* the string an argument of atob is converted to
ToStringArg(value) ==
    IF value.t = "string" THEN value.s
    ELSE IF value.t = "null" THEN <<110, 117, 108, 108>>
    ELSE <<117, 110, 100, 101, 102, 105, 110, 101, 100>>

\* base64ToEncryptedData with the field sizes checked at the codec step
base64ToEncryptedData_SizeChecked(data) ==
    IF data.t = "null" THEN Fail("parse", "TypeError")
    ELSE LET c == atob(ToStringArg(GetProp(data, KeyCiphertext)))
             n == atob(ToStringArg(GetProp(data, KeyNonce)))
             s == atob(ToStringArg(GetProp(data, KeySalt)))
         IN  IF ~c.ok THEN c
             ELSE IF ~n.ok THEN n
             ELSE IF ~s.ok THEN s
             ELSE IF Len(n.value) # NONCE_LENGTH THEN Fail("parse", "RangeError")
             ELSE Ok([ciphertext |-> stringToBytes(c.value),
                      nonce      |-> stringToBytes(n.value),
                      salt       |-> stringToBytes(s.value)])

\* base64ToEncryptedData(data): the fields are decoded in the order ciphertext,
\* nonce, salt; reading a property of null throws a TypeError
base64ToEncryptedData(data) ==
    IF data.t = "null" THEN Fail("parse", "TypeError")
    ELSE LET c == atob(ToStringArg(GetProp(data, KeyCiphertext)))
             n == atob(ToStringArg(GetProp(data, KeyNonce)))
             s == atob(ToStringArg(GetProp(data, KeySalt)))
         IN  IF ~c.ok THEN c
             ELSE IF ~n.ok THEN n
             ELSE IF ~s.ok THEN s
             ELSE Ok([ciphertext |-> stringToBytes(c.value),
                      nonce      |-> stringToBytes(n.value),
                      salt       |-> stringToBytes(s.value)])

(***************************************************************************)
(* JSON text.  The texts of the model hold objects whose members are       *)
(* strings or null, and text that is not JSON; none holds a backslash, so  *)
(* strings are written and read without escapes.                           *)
(***************************************************************************)
\* a string between double quotes (34)
JsonQuote(s) == <<34>> \o s \o <<34>>

\* JSON.stringify of the object encryptedDataToBase64 returns:
\* {"ciphertext":"...","nonce":"...","salt":"..."}
JsonStringify(b) ==
    <<123>> \o JsonQuote(KeyCiphertext) \o <<58>> \o JsonQuote(b.ciphertext)
      \o <<44>> \o JsonQuote(KeyNonce) \o <<58>> \o JsonQuote(b.nonce)
      \o <<44>> \o JsonQuote(KeySalt) \o <<58>> \o JsonQuote(b.salt) \o <<125>>

NoParse == [ok |-> FALSE, val |-> Undefined, next |-> 0]

Parsed(val, next) == [ok |-> TRUE, val |-> val, next |-> next]

RECURSIVE SkipWs(_, _)
\* the index of the first character at or after i that is not JSON whitespace
SkipWs(t, i) ==
    IF i <= Len(t) /\ t[i] \in {32, 9, 10, 13} THEN SkipWs(t, i + 1) ELSE i

\* a string literal starting at t[i] = '"'
ParseString(t, i) ==
    LET closers == { j \in (i + 1)..Len(t) : t[j] = 34 }
    IN  IF closers = {} THEN NoParse
        ELSE LET j    == CHOOSE x \in closers : \A y \in closers : x <= y
                 body == SubSeq(t, i + 1, j - 1)
             IN  IF \E k \in 1..Len(body) : body[k] < 32 \/ body[k] = 92
                 THEN NoParse
                 ELSE Parsed(Str(body), j + 1)

\* a string or the literal null at t[i]
ParseScalar(t, i) ==
    IF i > Len(t) THEN NoParse
    ELSE IF t[i] = 34 THEN ParseString(t, i)
    ELSE IF i + 3 <= Len(t) /\ SubSeq(t, i, i + 3) = <<110, 117, 108, 108>>
         THEN Parsed(Null, i + 4)
    ELSE NoParse

RECURSIVE ParseMembers(_, _, _)
\* the members of an object from t[i] on, up to the closing brace
ParseMembers(t, i, acc) ==
    IF i > Len(t) \/ t[i] # 34 THEN NoParse
    ELSE LET name == ParseString(t, i)
             colon == SkipWs(t, name.next)
         IN  IF ~name.ok \/ colon > Len(t) THEN NoParse
             ELSE IF t[colon] # 58 THEN NoParse
             ELSE LET val  == ParseScalar(t, SkipWs(t, colon + 1))
                      sep  == SkipWs(t, val.next)
                      more == Append(acc, << name.val.s, val.val >>)
                  IN  IF ~val.ok \/ sep > Len(t) THEN NoParse
                      ELSE IF t[sep] = 125 THEN Parsed(Obj(more), sep + 1)
                      ELSE IF t[sep] = 44 THEN ParseMembers(t, SkipWs(t, sep + 1), more)
                      ELSE NoParse

\* an object or a scalar at t[i]
ParseValue(t, i) ==
    IF i > Len(t) THEN NoParse
    ELSE IF t[i] = 123
         THEN LET j == SkipWs(t, i + 1)
              IN  IF j <= Len(t) /\ t[j] = 125 THEN Parsed(Obj(<< >>), j + 1)
                  ELSE ParseMembers(t, j, << >>)
    ELSE ParseScalar(t, i)

\* JSON.parse(text): throws a SyntaxError on text that is not one JSON value
JsonParse(t) ==
    LET r == ParseValue(t, SkipWs(t, 1))
    IN  IF ~r.ok THEN Fail("parse", "SyntaxError")
        ELSE IF SkipWs(t, r.next) <= Len(t) THEN Fail("parse", "SyntaxError")
        ELSE Ok(r.val)

\* encryptToJSON(plaintext, password)
encryptToJSON(plaintext, password, saltDraw, nonceDraw) ==
    LET encrypted == encrypt(plaintext, password, saltDraw, nonceDraw)
        base64    == encryptedDataToBase64(encrypted.value)
    IN  IF ~encrypted.ok THEN encrypted
        ELSE Ok(JsonStringify(base64))

\* a defect: the decrypted bytes are decoded as text, so that a byte that is
\* no ASCII character comes back as U+FFFD
decryptFromJSON_Decoded(jsonString, password) ==
    LET parsed == JsonParse(jsonString)
    IN  IF ~parsed.ok THEN parsed
        ELSE LET encrypted == base64ToEncryptedData(parsed.value)
             IN  IF ~encrypted.ok THEN encrypted
                 ELSE LET decrypted == decrypt(encrypted.value, password)
                      IN  IF ~decrypted.ok THEN decrypted
                          ELSE Ok([i \in 1..Len(decrypted.value) |->
                                      IF decrypted.value[i] < 128 THEN decrypted.value[i]
                                      ELSE 65533])

\* decryptFromJSON(jsonString, password): the result string has one code unit
\* per decrypted byte
decryptFromJSON(jsonString, password) ==
    LET parsed == JsonParse(jsonString)
    IN  IF ~parsed.ok THEN parsed
        ELSE LET encrypted == base64ToEncryptedData(parsed.value)
             IN  IF ~encrypted.ok THEN encrypted
                 ELSE LET decrypted == decrypt(encrypted.value, password)
                      IN  IF ~decrypted.ok THEN decrypted
                          ELSE Ok(FromCharCodes(decrypted.value))

(***************************************************************************)
(* Inputs.                                                                 *)
(***************************************************************************)
\* sample byte values of plaintexts
PlainBytes == {0, 200}

RECURSIVE SeqsUpTo(_, _)
\* the sequences over S of length at most n
SeqsUpTo(S, n) ==
    IF n = 0 THEN { << >> }
    ELSE LET shorter == SeqsUpTo(S, n - 1)
         IN  shorter \cup { Append(q, x) : q \in shorter, x \in S }

Plaintexts == SeqsUpTo(PlainBytes, MaxPlainLen)

\* "Pw", "pw", " Pw", "Pw " : passwords that differ in case or by
\* leading / trailing whitespace only
Passwords == { <<80, 119>>, <<112, 119>>, <<32, 80, 119>>, <<80, 119, 32>> }

\* the passwords envelopes are encrypted with: "Pw" and " Pw"
EncryptPasswords == { <<80, 119>>, <<32, 80, 119>> }

(***************************************************************************)
(* State.                                                                  *)
(***************************************************************************)
VARIABLES
    rng,    \* the arrays the secure-random source has returned so far
    calls,  \* the encrypt calls made: plaintext, password, envelope, cipher feed
    last,   \* the last decrypt call: its input, password and outcome
    tasks,  \* the encrypt calls in flight, each with its locals and its position
    feeds,  \* the (key, iv) pairs handed to crypto.subtle.encrypt, in order
    files,  \* the serialized envelopes written by encryptToJSON, with their origin
    codec,  \* an envelope on its way through the codec and back
    repo,   \* the working tree and the index of the repository, and the hook's run
    correctPassword, \* the argument useDecryption was called with
    state,  \* the state object of useDecryption
    pending, \* the decryptFile calls that have started and not completed
    gate    \* the PasswordGate component: its state, its props, its onUnlock calls

vars == << crypto, repo, correctPassword, state, pending,
           rng, calls, last, tasks, feeds, files, codec, gate >>

NoEnvelope == [ciphertext |-> << >>, nonce |-> << >>, salt |-> << >>]

NoCall == [op |-> "none", of |-> 0, at |-> 0, password |-> << >>,
           input |-> NoEnvelope,
           out |-> Fail("", "")]

CodecIdle == [stage |-> "idle", env |-> NoEnvelope, value |-> Undefined,
              text |-> << >>, back |-> Fail("", "")]

\* the repository before any content file is added and before the hook runs
EmptyRepo == [work |-> {}, staged |-> {}, hook |-> "idle", password |-> << >>]

\* useDecryption() called without an argument
NoCorrectPassword == [given |-> FALSE, value |-> << >>]

\* error: null
NoError == [null |-> TRUE, message |-> ""]

\* the argument of useState in useDecryption; decryptedFiles holds the values
\* of the Map, one per key
\* PasswordGate at its first render: useState(''), useState(false), the default
\* props isLoading = false and error = null; onUnlock has not been called and no
\* submit event was handled
GateMounted == [password |-> << >>, show |-> FALSE, isLoading |-> FALSE,
                error |-> NoError, unlocked |-> << >>, submits |-> 0]

InitialState == [isLoading |-> FALSE, error |-> NoError, password |-> << >>,
                 isAuthenticated |-> FALSE, decryptedFiles |-> {}]

Init ==
    /\ crypto = "full"
    /\ repo = EmptyRepo
    /\ correctPassword = NoCorrectPassword
    /\ state = InitialState
    /\ pending = {}
    /\ rng = {}
    /\ calls = << >>
    /\ last = NoCall
    /\ tasks = << >>
    /\ feeds = << >>
    /\ files = << >>
    /\ codec = CodecIdle
    /\ gate = GateMounted

\* one encrypt(plaintext, password) call; the source returns values it has
\* not returned before
EncryptCall(limit) ==
    /\ Len(calls) < limit
    /\ \E p \in Plaintexts, w \in EncryptPasswords :
       \E s \in RandomPool(SALT_LENGTH) \ rng :
       \E n \in RandomPool(NONCE_LENGTH) \ rng :
          LET env == encrypt(Bytes(p), w, s, n)
              dk  == deriveKey(w, Absent, s)
          IN  /\ env.ok
              /\ calls' = Append(calls, [plaintext |-> p, password |-> w,
                                         env |-> env.value,
                                         key |-> dk.value.key, iv |-> IvOf(n)])
              /\ rng' = rng \cup {s, n}
    /\ UNCHANGED << crypto, repo, correctPassword, state, pending, last, tasks, feeds, files, codec, gate >>

Encrypt == EncryptCall(1)

\* decrypt(envelope, password) on an envelope as encrypt returned it; a caller
\* may try again with another password
Decrypt ==
    \E c \in 1..Len(calls), w \in Passwords :
        /\ last.op \in {"none", "decrypt"}
        /\ last' = [op |-> "decrypt", of |-> c, at |-> 0, password |-> w, input |-> calls[c].env,
                    out |-> decrypt(calls[c].env, w)]
        /\ UNCHANGED << crypto, repo, correctPassword, state, pending, rng, calls, tasks, feeds, files, codec, gate >>

\* The three actions below each follow one stored envelope that is damaged once
\* and then handed to decrypt.

\* arr with bit b of its byte at index i (1-based) flipped: arr[i-1] ^= 1 << b
FlipBit(arr, i, b) == [arr EXCEPT ![i] = Xor(arr[i], Pow2(b))]

\* decrypt with the right password after one bit of the envelope's nonce was
\* flipped in storage
DecryptNonceFlipped ==
    \E c \in 1..Len(calls) :
    \E i \in 1..Len(calls[c].env.nonce), b \in 0..7 :
        LET input == [calls[c].env EXCEPT !.nonce = FlipBit(@, i, b)]
        IN  /\ last.op = "none"
            /\ last' = [op |-> "nonceFlipped", of |-> c, at |-> i,
                        password |-> calls[c].password, input |-> input,
                        out |-> decrypt(input, calls[c].password)]
            /\ UNCHANGED << crypto, repo, correctPassword, state, pending, rng, calls, tasks, feeds, files, codec, gate >>

\* decrypt with the right password after one bit of the envelope's ciphertext
\* (payload or tag) was flipped in storage
DecryptCiphertextFlipped ==
    \E c \in 1..Len(calls) :
    \E i \in 1..Len(calls[c].env.ciphertext), b \in 0..7 :
        LET input == [calls[c].env EXCEPT !.ciphertext = FlipBit(@, i, b)]
        IN  /\ last.op = "none"
            /\ last' = [op |-> "ciphertextFlipped", of |-> c, at |-> i,
                        password |-> calls[c].password, input |-> input,
                        out |-> decrypt(input, calls[c].password)]
            /\ UNCHANGED << crypto, repo, correctPassword, state, pending, rng, calls, tasks, feeds, files, codec, gate >>

\* decrypt with the right password after k trailing bytes of the envelope's
\* ciphertext were removed: ciphertext.slice(0, length - k)
DecryptTruncated ==
    \E c \in 1..Len(calls) :
    \E k \in 1..Len(calls[c].env.ciphertext) :
        LET ct    == calls[c].env.ciphertext
            input == [calls[c].env EXCEPT !.ciphertext = Slice(ct, 0, Len(ct) - k)]
        IN  /\ last.op = "none"
            /\ last' = [op |-> "truncated", of |-> c, at |-> k,
                        password |-> calls[c].password, input |-> input,
                        out |-> decrypt(input, calls[c].password)]
            /\ UNCHANGED << crypto, repo, correctPassword, state, pending, rng, calls, tasks, feeds, files, codec, gate >>

Next ==
    \/ Encrypt
    \/ Decrypt
    \/ DecryptNonceFlipped
    \/ DecryptCiphertextFlipped
    \/ DecryptTruncated

Spec == Init /\ [][Next]_vars


(***************************************************************************)
(* Concurrent encrypt calls.  An async call runs from one await to the     *)
(* next without interruption; between awaits other calls may run.  The     *)
(* three awaits inside deriveKey (importKey, deriveKey, exportKey) touch   *)
(* only locals and are one step here.                                      *)
(***************************************************************************)
\* plaintexts and passwords of the concurrent calls
CallPlaintexts == { << >>, <<200>> }

CallPasswords == { <<80, 119>> }

\* encrypt is called: it runs up to the first await inside deriveKey, having
\* drawn the salt (line 66)
CallEncryptOf(plaintexts) ==
    /\ Len(tasks) < MaxCalls
    /\ \E p \in plaintexts, w \in CallPasswords :
       \E s \in RandomPool(SALT_LENGTH) \ rng :
          /\ tasks' = Append(tasks, [pc |-> "deriving", plaintext |-> p, password |-> w,
                                     salt |-> deriveKey(w, Absent, s).value.salt,
                                     key |-> << >>, nonce |-> << >>,
                                     env |-> NoEnvelope])
          /\ rng' = rng \cup {s}
    /\ UNCHANGED << crypto, repo, correctPassword, state, pending, calls, last, feeds, files, codec, gate >>

CallEncrypt == CallEncryptOf(CallPlaintexts)

\* a defect: the derived key is kept in one place shared by the calls, so that
\* every call in flight gets the key derived last
KeyDerived_SharedKey ==
    \E t \in 1..Len(tasks) :
        /\ tasks[t].pc = "deriving"
        /\ \E n \in RandomPool(NONCE_LENGTH) \ rng :
              LET key == deriveKey(tasks[t].password, Given(tasks[t].salt), << >>).value.key
              IN  /\ tasks' = [u \in 1..Len(tasks) |->
                                  IF u = t
                                  THEN [tasks[u] EXCEPT !.pc = "importing", !.key = key,
                                                        !.nonce = n]
                                  ELSE [tasks[u] EXCEPT !.key = key]]
                  /\ rng' = rng \cup {n}
        /\ UNCHANGED << crypto, repo, correctPassword, state, pending, calls, last, feeds, files, codec, gate >>

\* deriveKey returns: encrypt draws the nonce (line 211) and calls secretBox,
\* which runs up to its await of importKey
KeyDerived ==
    \E t \in 1..Len(tasks) :
        /\ tasks[t].pc = "deriving"
        /\ \E n \in RandomPool(NONCE_LENGTH) \ rng :
              /\ tasks' = [tasks EXCEPT ![t].pc = "importing",
                                       ![t].key = deriveKey(tasks[t].password,
                                                            Given(tasks[t].salt), << >>).value.key,
                                       ![t].nonce = n]
              /\ rng' = rng \cup {n}
        /\ UNCHANGED << crypto, repo, correctPassword, state, pending, calls, last, feeds, files, codec, gate >>

\* importKey returns: secretBox calls crypto.subtle.encrypt with the key and
\* the IV
CipherFed ==
    \E t \in 1..Len(tasks) :
        /\ tasks[t].pc = "importing"
        /\ tasks' = [tasks EXCEPT ![t].pc = "encrypting"]
        /\ feeds' = Append(feeds, << tasks[t].key, IvOf(tasks[t].nonce) >>)
        /\ UNCHANGED << crypto, repo, correctPassword, state, pending, rng, calls, last, files, codec, gate >>

\* the cipher returns: secretBox prepends the nonce, encrypt cuts it off again
\* and returns the envelope
EncryptReturned ==
    \E t \in 1..Len(tasks) :
        /\ tasks[t].pc = "encrypting"
        /\ LET secretBoxed == secretBox(tasks[t].plaintext, tasks[t].key,
                                        Given(tasks[t].nonce), << >>)
               env == [ciphertext |-> SliceFrom(secretBoxed.value, NONCE_LENGTH),
                       nonce |-> tasks[t].nonce, salt |-> tasks[t].salt]
           IN  tasks' = [tasks EXCEPT ![t].pc = "done", ![t].env = env]
        /\ UNCHANGED << crypto, repo, correctPassword, state, pending, rng, calls, last, feeds, files, codec, gate >>

NextCalls == CallEncrypt \/ KeyDerived \/ CipherFed \/ EncryptReturned

SpecCalls == Init /\ [][NextCalls]_vars

(***************************************************************************)
(* Concurrent encrypt and decrypt calls.  A decrypt call awaits inside     *)
(* deriveKey, then inside secretBoxOpen at importKey and at                *)
(* crypto.subtle.decrypt.                                                  *)
(***************************************************************************)
\* an envelope written earlier: encrypt of the byte 200 under "Pw"
StoredValid == encrypt(Bytes(<<200>>), <<80, 119>>, RandomBytes(9, SALT_LENGTH),
                       RandomBytes(9, NONCE_LENGTH)).value

\* encrypt is called with the byte 200 as plaintext
CallEncryptByte == CallEncryptOf({<<200>>})

\* decrypt is called with "Pw" or "pw": it runs up to the first await inside
\* deriveKey
CallDecrypt ==
    /\ Len(tasks) < MaxCalls
    /\ LET stored == StoredValid
       IN  \E w \in {<<80, 119>>, <<112, 119>>} :
              tasks' = Append(tasks, [pc |-> "dDeriving", plaintext |-> << >>,
                                      password |-> w, salt |-> stored.salt,
                                      key |-> << >>, nonce |-> << >>,
                                      env |-> stored, out |-> Fail("", "")])
    /\ UNCHANGED << crypto, repo, correctPassword, state, pending, rng, calls, last, feeds, files, codec, gate >>

\* deriveKey returns: decrypt joins nonce and ciphertext and calls
\* secretBoxOpen, which cuts them apart and runs up to its await of importKey
DecryptKeyDerived ==
    \E t \in 1..Len(tasks) :
        /\ tasks[t].pc = "dDeriving"
        /\ LET toDecrypt == tasks[t].env.nonce \o tasks[t].env.ciphertext
           IN  tasks' = [tasks EXCEPT
                            ![t].pc = "dImporting",
                            ![t].key = deriveKey(tasks[t].password,
                                                 Given(tasks[t].salt), << >>).value.key,
                            ![t].nonce = Slice(toDecrypt, 0, NONCE_LENGTH)]
        /\ UNCHANGED << crypto, repo, correctPassword, state, pending, rng, calls, last, feeds, files, codec, gate >>

\* importKey returns: secretBoxOpen calls crypto.subtle.decrypt
DecryptCipherFed ==
    \E t \in 1..Len(tasks) :
        /\ tasks[t].pc = "dImporting"
        /\ tasks' = [tasks EXCEPT ![t].pc = "dDecrypting"]
        /\ UNCHANGED << crypto, repo, correctPassword, state, pending, rng, calls, last, feeds, files, codec, gate >>

\* the cipher returns or rejects, and so does decrypt
DecryptReturned ==
    \E t \in 1..Len(tasks) :
        /\ tasks[t].pc = "dDecrypting"
        /\ tasks' = [tasks EXCEPT
                        ![t].pc = "opened",
                        ![t].out = AesGcmDecrypt(tasks[t].key, IvOf(tasks[t].nonce),
                                                 tasks[t].env.ciphertext)]
        /\ UNCHANGED << crypto, repo, correctPassword, state, pending, rng, calls, last, feeds, files, codec, gate >>

NextParallel ==
    \/ CallEncryptByte
    \/ KeyDerived
    \/ CipherFed
    \/ EncryptReturned
    \/ CallDecrypt
    \/ DecryptKeyDerived
    \/ DecryptCipherFed
    \/ DecryptReturned

SpecParallel == Init /\ [][NextParallel]_vars

(***************************************************************************)
(* The serialized form: encryptToJSON writes a text, decryptFromJSON reads *)
(* one, be it a text encryptToJSON wrote or a damaged one.                 *)
(***************************************************************************)
\* sample characters of text plaintexts: "A", "e" with acute accent (U+00E9)
TextChars == {65, 233}

JsonPlaintexts ==
    { Text(t) : t \in SeqsUpTo(TextChars, MaxPlainLen) }
        \cup { Bytes(b) : b \in Plaintexts }

\* field values atob rejects: "!!!!", "A", "A=AA", "AAAAA", "AA*A"
BadBase64 == { <<33, 33, 33, 33>>, <<65>>, <<65, 61, 65, 65>>, <<65, 65, 65, 65, 65>>, <<65, 65, 42, 65>> }

\* "AAAA": three zero bytes in base64
GoodBase64 == <<65, 65, 65, 65>>

\* serialized records with exactly one field that is not base64
BadFieldTexts ==
    { JsonStringify([ciphertext |-> x, nonce |-> GoodBase64, salt |-> GoodBase64]) :
          x \in BadBase64 }
    \cup { JsonStringify([ciphertext |-> GoodBase64, nonce |-> x, salt |-> GoodBase64]) :
          x \in BadBase64 }
    \cup { JsonStringify([ciphertext |-> GoodBase64, nonce |-> GoodBase64, salt |-> x]) :
          x \in BadBase64 }

\* {}   {"ciphertext": null}   {"ciphertext":null}   not json at all
\* {invalid json}   and the empty text
BrokenTexts ==
    { <<123, 125>>,
      <<123, 34, 99, 105, 112, 104, 101, 114, 116, 101, 120, 116, 34, 58, 32, 110, 117, 108, 108, 125>>,
      <<123, 34, 99, 105, 112, 104, 101, 114, 116, 101, 120, 116, 34, 58, 110, 117, 108, 108, 125>>,
      <<110, 111, 116, 32, 106, 115, 111, 110, 32, 97, 116, 32, 97, 108, 108>>,
      <<123, 105, 110, 118, 97, 108, 105, 100, 32, 106, 115, 111, 110, 125>>,
      << >> }

\* records whose fields are null instead of base64 strings:
\* {"ciphertext":null,"nonce":null,"salt":null}
\* {"ciphertext":"AAAA","nonce":null,"salt":"AAAA"}
NullFieldTexts ==
    { <<123, 34, 99, 105, 112, 104, 101, 114, 116, 101, 120, 116, 34, 58, 110, 117, 108, 108, 44, 34, 110, 111, 110, 99, 101, 34, 58, 110, 117, 108, 108, 44, 34, 115, 97, 108, 116, 34, 58, 110, 117, 108, 108, 125>>,
      <<123, 34, 99, 105, 112, 104, 101, 114, 116, 101, 120, 116, 34, 58, 34, 65, 65, 65, 65, 34, 44, 34, 110, 111, 110, 99, 101, 34, 58, 110, 117, 108, 108, 44, 34, 115, 97, 108, 116, 34, 58, 34, 65, 65, 65, 65, 34, 125>> }

\* the malformed inputs: broken structure or a field that is not base64
MalformedTexts == BrokenTexts \cup BadFieldTexts \cup NullFieldTexts

\* well-formed records that are no valid envelope:
\* {"ciphertext":"","nonce":"","salt":""} and one with three "AAAA" fields
HollowTexts ==
    { JsonStringify([ciphertext |-> << >>, nonce |-> << >>, salt |-> << >>]),
      JsonStringify([ciphertext |-> GoodBase64, nonce |-> GoodBase64,
                     salt |-> GoodBase64]) }

\* one encryptToJSON(plaintext, password) call
EncryptToJSON ==
    /\ Len(files) < 1
    /\ \E pt \in JsonPlaintexts, w \in EncryptPasswords :
       \E s \in RandomPool(SALT_LENGTH) \ rng :
       \E n \in RandomPool(NONCE_LENGTH) \ rng :
          /\ files' = Append(files, [plaintext |-> pt, password |-> w,
                                     json |-> encryptToJSON(pt, w, s, n).value])
          /\ rng' = rng \cup {s, n}
    /\ UNCHANGED << crypto, repo, correctPassword, state, pending, calls, last, tasks, feeds, codec, gate >>

\* decryptFromJSON(text, password) on a text encryptToJSON wrote
DecryptFromJSON ==
    \E f \in 1..Len(files), w \in Passwords :
        /\ last.op \in {"none", "decryptFromJSON"}
        /\ last' = [op |-> "decryptFromJSON", of |-> f, at |-> 0, password |-> w,
                    input |-> files[f].json,
                    out |-> decryptFromJSON(files[f].json, w)]
        /\ UNCHANGED << crypto, repo, correctPassword, state, pending, rng, calls, tasks, feeds, files, codec, gate >>

\* decryptFromJSON(text, password) on a text that is no serialized envelope
DecryptDamagedJSON ==
    \E t \in MalformedTexts \cup HollowTexts, w \in EncryptPasswords :
        /\ last.op = "none"
        /\ last' = [op |-> "decryptDamaged", of |-> 0, at |-> 0, password |-> w,
                    input |-> t, out |-> decryptFromJSON(t, w)]
        /\ UNCHANGED << crypto, repo, correctPassword, state, pending, rng, calls, tasks, feeds, files, codec, gate >>

\* the two ways the tests corrupt the ciphertext field of a serialized envelope:
\* ciphertext.replace(/[A-Za-z0-9]/g, 'X') and ciphertext.slice(0, -5) + 'XXXXX'
TamperKinds == { "replace", "slice" }

Tamper(kind, text) ==
    IF kind = "replace"
    THEN [i \in 1..Len(text) |->
             IF text[i] \in (65..90) \cup (97..122) \cup (48..57) THEN 88 ELSE text[i]]
    ELSE (IF Len(text) <= 5 THEN << >> ELSE SubSeq(text, 1, Len(text) - 5))
           \o <<88, 88, 88, 88, 88>>

\* JSON.parse, the ciphertext field replaced, JSON.stringify
TamperedJSON(kind, text) ==
    LET parsed == JsonParse(text).value
    IN  JsonStringify([ciphertext |-> Tamper(kind, GetProp(parsed, KeyCiphertext).s),
                       nonce      |-> GetProp(parsed, KeyNonce).s,
                       salt       |-> GetProp(parsed, KeySalt).s])

DecryptedText(op, f, w, text) ==
    /\ last' = [op |-> op, of |-> f, at |-> 0, password |-> w,
                input |-> text, out |-> decryptFromJSON(text, w)]
    /\ UNCHANGED << crypto, repo, correctPassword, state, pending, rng, calls, tasks, feeds, files, codec, gate >>

\* decryptFromJSON(text, password) on a text encryptToJSON wrote, its
\* ciphertext field corrupted afterwards
DecryptTamperedJSON ==
    \E f \in 1..Len(files), kind \in TamperKinds, w \in Passwords :
        /\ last.op = "none"
        /\ DecryptedText("decryptTampered", f, w, TamperedJSON(kind, files[f].json))

NextJSON == EncryptToJSON \/ DecryptFromJSON \/ DecryptDamagedJSON \/ DecryptTamperedJSON

SpecJSON == Init /\ [][NextJSON]_vars

(***************************************************************************)
(* Binary data through the serialized form.                                *)
(***************************************************************************)
\* every single byte, and the sample plaintexts
BinaryPlaintexts == { << x >> : x \in Byte } \cup Plaintexts

\* encryptToJSON(bytes, "Pw")
EncryptBinaryToJSON ==
    /\ Len(files) < 1
    /\ \E b \in BinaryPlaintexts :
       \E s \in RandomPool(SALT_LENGTH) \ rng :
       \E n \in RandomPool(NONCE_LENGTH) \ rng :
          /\ files' = Append(files, [plaintext |-> Bytes(b), password |-> <<80, 119>>,
                                     json |-> encryptToJSON(Bytes(b), <<80, 119>>,
                                                            s, n).value])
          /\ rng' = rng \cup {s, n}
    /\ UNCHANGED << crypto, repo, correctPassword, state, pending, calls, last, tasks, feeds, codec, gate >>

\* decryptFromJSON(text, "Pw") on the text written
DecryptBinaryFromJSON ==
    \E f \in 1..Len(files) :
        /\ last.op = "none"
        /\ last' = [op |-> "decryptBinary", of |-> f, at |-> 0,
                    password |-> files[f].password, input |-> files[f].json,
                    out |-> decryptFromJSON(files[f].json, files[f].password)]
        /\ UNCHANGED << crypto, repo, correctPassword, state, pending, rng, calls, tasks, feeds, files, codec, gate >>

NextBinary == EncryptBinaryToJSON \/ DecryptBinaryFromJSON

SpecBinary == Init /\ [][NextBinary]_vars

(***************************************************************************)
(* The codec alone, on arbitrary envelopes: to base64, optionally through  *)
(* JSON text, and back.                                                    *)
(***************************************************************************)
\* sample byte values of the fields: they reach 'A', '+', '/' and padding
CodecBytes == {0, 251, 255}

LongFields == SeqsUpTo(CodecBytes, MaxFieldLen)

ShortFields == { << >>, <<251>> }

\* envelopes with one field of any sample content and two short ones, and
\* envelopes whose ciphertext is any single byte
CodecEnvelopes ==
    { [ciphertext |-> a, nonce |-> b, salt |-> c] :
          a \in LongFields, b \in ShortFields, c \in ShortFields }
    \cup { [ciphertext |-> b, nonce |-> a, salt |-> c] :
          a \in LongFields, b \in ShortFields, c \in ShortFields }
    \cup { [ciphertext |-> b, nonce |-> c, salt |-> a] :
          a \in LongFields, b \in ShortFields, c \in ShortFields }
    \cup { [ciphertext |-> << x >>, nonce |-> << >>, salt |-> << >>] : x \in Byte }

\* encryptedDataToBase64(env)
ToBase64 ==
    /\ codec.stage = "idle"
    /\ \E env \in CodecEnvelopes :
          codec' = [codec EXCEPT !.stage = "encoded", !.env = env,
                                 !.value = ObjOfBase64(encryptedDataToBase64(env))]
    /\ UNCHANGED << crypto, repo, correctPassword, state, pending, rng, calls, last, tasks, feeds, files, gate >>

\* JSON.stringify(base64)
Stringify ==
    /\ codec.stage = "encoded"
    /\ codec' = [codec EXCEPT !.stage = "stringified",
                              !.text = JsonStringify(encryptedDataToBase64(codec.env))]
    /\ UNCHANGED << crypto, repo, correctPassword, state, pending, rng, calls, last, tasks, feeds, files, gate >>

\* JSON.parse(text)
ParseText ==
    /\ codec.stage = "stringified"
    /\ LET parsed == JsonParse(codec.text)
       IN  codec' = [codec EXCEPT !.stage = IF parsed.ok THEN "parsed" ELSE "unparsed",
                                  !.value = IF parsed.ok THEN parsed.value ELSE Undefined]
    /\ UNCHANGED << crypto, repo, correctPassword, state, pending, rng, calls, last, tasks, feeds, files, gate >>

\* base64ToEncryptedData(value), on the object as encoded or as parsed
FromBase64 ==
    /\ codec.stage \in {"encoded", "parsed"}
    /\ codec' = [codec EXCEPT !.stage = IF codec.stage = "encoded" THEN "decoded"
                                        ELSE "decodedFromText",
                              !.back = base64ToEncryptedData(codec.value)]
    /\ UNCHANGED << crypto, repo, correctPassword, state, pending, rng, calls, last, tasks, feeds, files, gate >>

NextCodec == ToBase64 \/ Stringify \/ ParseText \/ FromBase64

SpecCodec == Init /\ [][NextCodec]_vars

(***************************************************************************)
(* The nonce bytes behind the IV: an envelope whose nonce differs from the *)
(* stored one only after byte 12 is decrypted, and a stored envelope goes  *)
(* through the codec.                                                      *)
(***************************************************************************)
\* the nonces that agree with `nonce` on the IV bytes: the lowest or highest
\* bit of a byte behind them flipped, the bytes behind them zeroed, or taken
\* from another random array
TailVariants(nonce) ==
    { FlipBit(nonce, i, b) : i \in (IV_LENGTH + 1)..Len(nonce), b \in {0, 7} }
    \cup { [i \in 1..Len(nonce) |-> IF i <= IV_LENGTH THEN nonce[i] ELSE 0] }
    \cup { [i \in 1..Len(nonce) |-> IF i <= IV_LENGTH THEN nonce[i] ELSE m[i]] :
              m \in RandomPool(NONCE_LENGTH) }

\* base64ToEncryptedData(encryptedDataToBase64(envelope)) on a stored envelope
EnvelopeThroughCodec ==
    \E c \in 1..Len(calls) :
        /\ codec.stage = "idle"
        /\ LET base64 == ObjOfBase64(encryptedDataToBase64(calls[c].env))
           IN  codec' = [codec EXCEPT !.stage = "decoded", !.env = calls[c].env,
                                      !.value = base64,
                                      !.back = base64ToEncryptedData(base64)]
        /\ UNCHANGED << crypto, repo, correctPassword, state, pending, rng, calls, last, tasks, feeds, files, gate >>

\* the same through the serialized form:
\* base64ToEncryptedData(JSON.parse(JSON.stringify(encryptedDataToBase64(e))))
EnvelopeThroughText ==
    \E c \in 1..Len(calls) :
        /\ codec.stage = "idle"
        /\ LET text   == JsonStringify(encryptedDataToBase64(calls[c].env))
               parsed == JsonParse(text)
           IN  codec' = [codec EXCEPT
                            !.stage = "decodedFromText", !.env = calls[c].env,
                            !.text = text,
                            !.value = IF parsed.ok THEN parsed.value ELSE Undefined,
                            !.back = IF parsed.ok THEN base64ToEncryptedData(parsed.value)
                                     ELSE parsed]
        /\ UNCHANGED << crypto, repo, correctPassword, state, pending, rng, calls, last, tasks, feeds, files, gate >>

\* decrypt(envelope', password), envelope' the envelope read back from the
\* codec with other nonce bytes behind the IV; the password is the right one
\* or "pw"
DecryptTailChanged ==
    /\ codec.stage \in {"decoded", "decodedFromText"}
    /\ codec.back.ok
    /\ last.op = "none"
    /\ \E c \in 1..Len(calls) :
       \E w \in {calls[c].password, <<112, 119>>} :
       \E nonce \in TailVariants(codec.back.value.nonce) :
          LET input == [codec.back.value EXCEPT !.nonce = nonce]
          IN  last' = [op |-> "tailChanged", of |-> c, at |-> 0, password |-> w,
                       input |-> input, out |-> decrypt(input, w)]
    /\ UNCHANGED << crypto, repo, correctPassword, state, pending, rng, calls, tasks, feeds, files, codec, gate >>

NextNonce == Encrypt \/ EnvelopeThroughCodec \/ EnvelopeThroughText \/ DecryptTailChanged

SpecNonce == Init /\ [][NextNonce]_vars

(***************************************************************************)
(* encrypt and decrypt in any runtime: with the Web Crypto API, with a     *)
(* crypto object that lacks subtle, and with no crypto object.             *)
(***************************************************************************)
InitRuntime ==
    /\ crypto \in Runtimes
    /\ repo = EmptyRepo
    /\ correctPassword = NoCorrectPassword
    /\ state = InitialState
    /\ pending = {}
    /\ rng = {}
    /\ calls = << >>
    /\ last = NoCall
    /\ tasks = << >>
    /\ feeds = << >>
    /\ files = << >>
    /\ codec = CodecIdle
    /\ gate = GateMounted

\* envelopes that were written elsewhere: 24-byte nonce, 16-byte salt, and a
\* ciphertext of a tag alone or of a tag and one byte
StoredEnvelopes ==
    { [ciphertext |-> RandomBytes(3, TAG_LENGTH + k),
       nonce |-> RandomBytes(5, NONCE_LENGTH),
       salt |-> RandomBytes(7, SALT_LENGTH)] : k \in 0..1 }

\* encrypt(plaintext, password): the envelope it returns, or the error it throws
RuntimeEncrypt ==
    /\ last.op = "none"
    /\ \E pt \in JsonPlaintexts, w \in EncryptPasswords :
       \E s \in RandomPool(SALT_LENGTH) \ rng :
       \E n \in RandomPool(NONCE_LENGTH) \ rng :
          LET out == encrypt(pt, w, s, n)
          IN  /\ last' = [op |-> "encrypt", of |-> 0, at |-> 0, password |-> w,
                          input |-> NoEnvelope, out |-> out]
              /\ calls' = IF out.ok
                          THEN Append(calls, [plaintext |-> DataOf(pt), password |-> w,
                                              env |-> out.value,
                                              key |-> deriveKey(w, Absent, s).value.key,
                                              iv |-> IvOf(n)])
                          ELSE calls
              /\ rng' = IF out.ok THEN rng \cup {s, n} ELSE rng
    /\ UNCHANGED << crypto, repo, correctPassword, state, pending, tasks, feeds, files, codec, gate >>

\* decrypt(envelope, password) on an envelope encrypt returned or on a stored one
RuntimeDecrypt ==
    /\ last.op \in {"none", "encrypt"}
    /\ \E e \in StoredEnvelopes \cup { calls[c].env : c \in 1..Len(calls) } :
       \E w \in Passwords :
          last' = [op |-> "decrypt", of |-> 0, at |-> 0, password |-> w,
                   input |-> e, out |-> decrypt(e, w)]
    /\ UNCHANGED << crypto, repo, correctPassword, state, pending, rng, calls, tasks, feeds, files, codec, gate >>

NextRuntime == RuntimeEncrypt \/ RuntimeDecrypt

SpecRuntime == InitRuntime /\ [][NextRuntime]_vars

(***************************************************************************)
(* The error kinds of the specification (section 7): an error raised while *)
(* the text is parsed and decoded is MalformedEnvelope, a missing Web      *)
(* Crypto API is CryptoUnavailable, a rejection by the cipher is           *)
(* AuthenticationFailed.                                                   *)
(***************************************************************************)
ErrorKind(out) ==
    IF out.ok THEN "none"
    ELSE IF out.stage = "parse" THEN "MalformedEnvelope"
    ELSE IF out.error = "Web Crypto API not available" THEN "CryptoUnavailable"
    ELSE IF out.stage = "cipher" THEN "AuthenticationFailed"
    ELSE "other"

\* the outcome is the AuthenticationFailed error and carries no plaintext
Rejected(out) ==
    /\ ~out.ok
    /\ ErrorKind(out) = "AuthenticationFailed"
    /\ out.value = << >>

(***************************************************************************)
(* Modified envelopes.  The envelope E of the first encrypt call is        *)
(* changed in storage, field by field, and handed to decrypt; a second     *)
(* encrypt call gives an envelope whose fields can take the place of E's.  *)
(***************************************************************************)
\* the plaintext of the second call, which no plaintext of the first equals
OtherPlaintext == <<7>>

\* a second encrypt call
EncryptOther ==
    /\ Len(calls) = 1
    /\ \E w \in EncryptPasswords :
       \E s \in RandomPool(SALT_LENGTH) \ rng :
       \E n \in RandomPool(NONCE_LENGTH) \ rng :
          LET env == encrypt(Bytes(OtherPlaintext), w, s, n)
              dk  == deriveKey(w, Absent, s)
          IN  /\ env.ok
              /\ calls' = Append(calls, [plaintext |-> OtherPlaintext, password |-> w,
                                         env |-> env.value,
                                         key |-> dk.value.key, iv |-> IvOf(n)])
              /\ rng' = rng \cup {s, n}
    /\ UNCHANGED << crypto, repo, correctPassword, state, pending,
                    last, tasks, feeds, files, codec, gate >>

\* what a stored field (never empty) can be changed to: its first bit flipped,
\* its last bit flipped, its last byte cut off
FlippedFirst(field) == FlipBit(field, 1, 0)

FlippedLast(field) == FlipBit(field, Len(field), 7)

CutShort(field) == Slice(field, 0, Len(field) - 1)

\* decrypt, under the password of either call or under "pw", of the first
\* call's envelope with any of its fields changed, be it to the same field of
\* the second call's envelope
DecryptModified ==
    /\ Len(calls) = 2
    /\ last.op = "none"
    /\ \E ciphertext \in { calls[1].env.ciphertext, calls[2].env.ciphertext,
                           FlippedFirst(calls[1].env.ciphertext),
                           CutShort(calls[1].env.ciphertext) },
          nonce \in { calls[1].env.nonce, calls[2].env.nonce,
                      FlippedFirst(calls[1].env.nonce),
                      FlippedLast(calls[1].env.nonce) },
          salt \in { calls[1].env.salt, calls[2].env.salt,
                     FlippedLast(calls[1].env.salt) },
          w \in { calls[1].password, calls[2].password, <<112, 119>> } :
          LET input == [ciphertext |-> ciphertext, nonce |-> nonce, salt |-> salt]
          IN  /\ input # calls[1].env
              /\ last' = [op |-> "modified", of |-> 1, at |-> 0, password |-> w,
                          input |-> input, out |-> decrypt(input, w)]
    /\ UNCHANGED << crypto, repo, correctPassword, state, pending,
                    rng, calls, tasks, feeds, files, codec, gate >>

NextModified == Encrypt \/ EncryptOther \/ DecryptModified

SpecModified == Init /\ [][NextModified]_vars

(***************************************************************************)
(* scripts/encrypt-files.js and the pre-commit hook that scripts/          *)
(* setup-hooks.js installs.  A path under public/ is a record: its         *)
(* category, its file name, and whether the name ends with '.enc'.  The    *)
(* working tree is a set of files (path and content), the index the set of *)
(* staged paths.                                                           *)
(***************************************************************************)
\* most unencrypted files in the working tree
MaxFiles == 1

\* const CONTENT_DIRS
CONTENT_DIRS == {"poems", "music", "art", "pictures", "writing"}

\* the name "authTag"
KeyAuthTag == <<97, 117, 116, 104, 84, 97, 103>>

\* the script's deriveKey(password): the salt is always drawn; `require` is
\* bound only when the runtime gives the module a require function, and
\* reading it unbound throws a ReferenceError
script_deriveKey(password, requireBound, random) ==
    IF ~requireBound THEN Fail("runtime", "ReferenceError")
    ELSE Ok([key  |-> Pbkdf2(TextEncode(password), random, ITERATIONS, KEY_LENGTH),
             salt |-> random])

\* encryptFile(plaintext, password): a 12-byte nonce, the cipher output
\* without its tag in ciphertext, the tag apart in authTag
encryptFile(plaintext, password, requireBound, saltDraw, nonceDraw) ==
    LET dk     == script_deriveKey(password, requireBound, saltDraw)
        sealed == AesGcmEncrypt(dk.value.key, nonceDraw, plaintext)
    IN  IF ~dk.ok THEN dk
        ELSE Ok([ciphertext |-> Slice(sealed, 0, Len(plaintext)),
                 nonce      |-> nonceDraw,
                 salt       |-> dk.value.salt,
                 authTag    |-> SliceFrom(sealed, Len(plaintext))])

\* encryptedToJSON(data):
\* {"ciphertext":"...","nonce":"...","salt":"...","authTag":"..."}
encryptedToJSON(data) ==
    <<123>> \o JsonQuote(KeyCiphertext) \o <<58>> \o JsonQuote(arrayToBase64(data.ciphertext))
      \o <<44>> \o JsonQuote(KeyNonce) \o <<58>> \o JsonQuote(arrayToBase64(data.nonce))
      \o <<44>> \o JsonQuote(KeySalt) \o <<58>> \o JsonQuote(arrayToBase64(data.salt))
      \o <<44>> \o JsonQuote(KeyAuthTag) \o <<58>> \o JsonQuote(arrayToBase64(data.authTag))
      \o <<125>>

\* filePath + '.enc'
EncPathOf(path) == [path EXCEPT !.enc = TRUE]

\* the files of the working tree the script encrypts: those under a content
\* directory whose name does not end with '.enc'
Originals(work) == { f \in work : f.path.dir \in CONTENT_DIRS /\ ~f.path.enc }

\* the loop of encryptFiles(): the working tree after every original was read,
\* encrypted and written next to itself; an encryptFile that throws is caught
\* per directory and logged, and nothing is written for it.  draws gives, for
\* each original, which salt and which nonce the random source returns
encryptFiles(work, password, requireBound, draws) ==
    LET written ==
            { [path    |-> EncPathOf(f.path),
               content |-> encryptedToJSON(
                   encryptFile(f.content, password, requireBound,
                               RandomBytes(draws[f.path][1], SALT_LENGTH),
                               RandomBytes(draws[f.path][2], IV_LENGTH)).value)] :
              f \in { g \in Originals(work) : requireBound } }
    IN  { f \in work : \A w \in written : w.path # f.path } \cup written

\* a file content too long for the website to take it for a bare tag
LongContent == [i \in 1..30 |-> (i * 7) % 256]

ScriptContents == Plaintexts \cup { LongContent }

\* VITE_SITE_PASSWORD as the script finds it: unset, "Pw" or " Pw"
SitePasswords == { [given |-> FALSE, value |-> << >>] }
                   \cup { [given |-> TRUE, value |-> w] : w \in EncryptPasswords }

\* cp <file> public/<category>/ ; then, or not, git add <file>
AddContent ==
    /\ repo.hook = "idle"
    /\ Cardinality(Originals(repo.work)) < MaxFiles
    /\ \E dir \in CONTENT_DIRS, content \in ScriptContents, add \in BOOLEAN :
          LET path == [dir |-> dir, name |-> "a.txt", enc |-> FALSE]
          IN  /\ \A f \in repo.work : f.path # path
              /\ repo' = [repo EXCEPT
                            !.work = @ \cup { [path |-> path, content |-> content] },
                            !.staged = IF add THEN @ \cup { path } ELSE @]
    /\ UNCHANGED << crypto, correctPassword, state, pending,
                    rng, calls, last, tasks, feeds, files, codec, gate >>

\* git commit runs the pre-commit hook: under `set -e` the script's exit(1)
\* for a missing password aborts it; otherwise the script's loop runs and
\* `git add public/**/*.enc` stages every .enc file of the content directories
PreCommit ==
    /\ repo.hook = "idle"
    /\ \E env \in SitePasswords, requireBound \in BOOLEAN :
       \E draws \in [ { f.path : f \in Originals(repo.work) } ->
                        (1..NumDraws) \X (1..NumDraws) ] :
          IF ~env.given
          THEN repo' = [repo EXCEPT !.hook = "aborted"]
          ELSE LET work == encryptFiles(repo.work, env.value, requireBound, draws)
               IN  repo' = [work     |-> work,
                            staged   |-> repo.staged \cup
                                           { f.path : f \in { g \in work : g.path.enc } },
                            hook     |-> "passed",
                            password |-> env.value]
    /\ UNCHANGED << crypto, correctPassword, state, pending,
                    rng, calls, last, tasks, feeds, files, codec, gate >>

NextScript == AddContent \/ PreCommit

SpecScript == Init /\ [][NextScript]_vars

(***************************************************************************)
(* The useDecryption hook (components/auth/use-decryption.ts).  A setState *)
(* with an updater function is applied to the state of the moment, so each *)
(* handler below is one step; decryptFile touches the state when it starts *)
(* and when it completes, and is in `pending` in between.                  *)
(***************************************************************************)
\* most decryptFile calls in flight at once
MaxPending == 2

\* a defect: without a correctPassword only a non-empty password is accepted
verifyPassword_NonEmpty(password) ==
    IF correctPassword.given /\ correctPassword.value # << >>
    THEN password = correctPassword.value
    ELSE password # << >>

\* verifyPassword(password): `if (correctPassword)` is false for undefined and
\* for the empty string
verifyPassword(password) ==
    IF correctPassword.given /\ correctPassword.value # << >>
    THEN password = correctPassword.value
    ELSE TRUE

\* the last element of s.split(sep): what follows the last sep, or all of s
AfterLast(s, sep) ==
    LET at == { i \in 1..Len(s) : s[i] = sep }
    IN  IF at = {} THEN s
        ELSE SubSeq(s, (CHOOSE i \in at : \A j \in at : j <= i) + 1, Len(s))

\* ".enc"
DotEnc == <<46, 101, 110, 99>>

\* s.replace('.enc', ''): the first occurrence is removed
ReplaceDotEnc(s) ==
    LET at == { i \in 1..(Len(s) - 3) : SubSeq(s, i, i + 3) = DotEnc }
    IN  IF at = {} THEN s
        ELSE LET i == CHOOSE x \in at : \A y \in at : x <= y
             IN  SubSeq(s, 1, i - 1) \o SubSeq(s, i + 4, Len(s))

\* toLowerCase() on the letters A-Z
ToLowerCase(s) == [i \in 1..Len(s) |-> IF s[i] \in 65..90 THEN s[i] + 32 ELSE s[i]]

\* the mimeTypes record of getMimeType, as << extension, type >> pairs
mimeTypes ==
    { << <<112, 100, 102>>, "application/pdf" >>,
      << <<116, 120, 116>>, "text/plain" >>,
      << <<109, 100>>, "text/markdown" >>,
      << <<106, 115, 111, 110>>, "application/json" >>,
      << <<112, 110, 103>>, "image/png" >>,
      << <<106, 112, 103>>, "image/jpeg" >>,
      << <<106, 112, 101, 103>>, "image/jpeg" >>,
      << <<103, 105, 102>>, "image/gif" >>,
      << <<119, 101, 98, 112>>, "image/webp" >>,
      << <<109, 112, 51>>, "audio/mpeg" >>,
      << <<119, 97, 118>>, "audio/wav" >>,
      << <<111, 103, 103>>, "audio/ogg" >>,
      << <<109, 52, 97>>, "audio/mp4" >>,
      << <<115, 118, 103>>, "image/svg+xml" >>,
      << <<104, 116, 109, 108>>, "text/html" >>,
      << <<99, 115, 115>>, "text/css" >>,
      << <<106, 115>>, "text/javascript" >> }

\* getMimeType(filename)
getMimeType(filename) ==
    LET ext   == ToLowerCase(AfterLast(filename, 46))
        known == { m \in mimeTypes : m[1] = ext }
    IN  IF known = {} THEN "application/octet-stream"
        ELSE (CHOOSE m \in known : TRUE)[2]

\* encryptedPath.split('/').pop()?.replace('.enc', '') || 'file'
fileNameOf(encryptedPath) ==
    LET name == ReplaceDotEnc(AfterLast(encryptedPath, 47))
    IN  IF name = << >> THEN <<102, 105, 108, 101>> ELSE name

\* "/poems/a.txt.enc", "/music/b.MP3.enc", "/poems/c.txt.enc"
PathA == <<47, 112, 111, 101, 109, 115, 47, 97, 46, 116, 120, 116, 46, 101, 110, 99>>

PathB == <<47, 109, 117, 115, 105, 99, 47, 98, 46, 77, 80, 51, 46, 101, 110, 99>>

PathC == <<47, 112, 111, 101, 109, 115, 47, 99, 46, 116, 120, 116, 46, 101, 110, 99>>

HookPaths == { PathA, PathB, PathC }

\* the static files of the site: a text file encrypted under "Pw", served at
\* PathA, and a one-byte file encrypted under "Pw", served at PathB
SiteFiles ==
    << [plaintext |-> Text(<<104, 105>>), password |-> <<80, 119>>,
        json |-> encryptToJSON(Text(<<104, 105>>), <<80, 119>>,
                               RandomBytes(1, SALT_LENGTH),
                               RandomBytes(1, NONCE_LENGTH)).value],
       [plaintext |-> Bytes(<<200>>), password |-> <<80, 119>>,
        json |-> encryptToJSON(Bytes(<<200>>), <<80, 119>>,
                               RandomBytes(2, SALT_LENGTH),
                               RandomBytes(2, NONCE_LENGTH)).value] >>

\* what fetch(path) resolves to: the file served at the path, or 404 Not
\* Found for PathC, where the site has no file
Fetch(path) ==
    IF path = PathA THEN [ok |-> TRUE, statusText |-> "OK", text |-> files[1].json]
    ELSE IF path = PathB
    THEN [ok |-> TRUE, statusText |-> "OK", text |-> files[2].json]
    ELSE [ok |-> FALSE, statusText |-> "Not Found", text |-> << >>]

\* the DecryptedFile decryptFile builds from what decryptFromJSON returned,
\* or what decryptFromJSON threw
FileOf(encryptedPath, fileName, decrypted) ==
    IF ~decrypted.ok THEN decrypted
    ELSE Ok([name |-> fileName, path |-> encryptedPath,
             content |-> decrypted.value, mimeType |-> getMimeType(fileName)])

\* a defect: the response is handed to decryptFromJSON before response.ok is
\* looked at
LoadFile_DecryptFirst(encryptedPath, password, response) ==
    FileOf(encryptedPath, fileNameOf(encryptedPath),
           decryptFromJSON(response.text, password))

\* the try block of decryptFile, given what fetch resolved to: the file it
\* builds, or what it throws
LoadFile(encryptedPath, password, response) ==
    IF ~response.ok
    THEN Fail("fetch", "Failed to load encrypted file: " \o response.statusText)
    ELSE FileOf(encryptedPath, fileNameOf(encryptedPath),
                decryptFromJSON(response.text, password))

\* a defect: the Map is built anew instead of copied from prev.decryptedFiles
Settled_FreshMap(prev, encryptedPath, loaded) ==
    IF loaded.ok
    THEN [prev EXCEPT !.decryptedFiles = { loaded.value },
                      !.isLoading = FALSE]
    ELSE [prev EXCEPT !.isLoading = FALSE,
                      !.error = [null |-> FALSE, message |-> loaded.error]]

\* the two setState calls that end decryptFile: the file is set in a copy of
\* the Map, or the catch block stores the message of what was thrown
Settled(prev, encryptedPath, loaded) ==
    IF loaded.ok
    THEN [prev EXCEPT !.decryptedFiles =
                          { f \in @ : f.path # encryptedPath } \cup { loaded.value },
                      !.isLoading = FALSE]
    ELSE [prev EXCEPT !.isLoading = FALSE,
                      !.error = [null |-> FALSE, message |-> loaded.error]]

\* the arguments useDecryption is called with: none, '' and "Pw"
HookArguments == { NoCorrectPassword,
                   [given |-> TRUE, value |-> << >>],
                   [given |-> TRUE, value |-> <<80, 119>>] }

\* the passwords typed into the gate: '', "Pw" and "pw"
HookPasswords == { << >>, <<80, 119>>, <<112, 119>> }

\* the first render of a component that calls useDecryption(correctPassword)
InitHook ==
    /\ crypto = "full"
    /\ repo = EmptyRepo
    /\ correctPassword \in HookArguments
    /\ state = InitialState
    /\ pending = {}
    /\ rng = {}
    /\ calls = << >>
    /\ last = NoCall
    /\ tasks = << >>
    /\ feeds = << >>
    /\ files = SiteFiles
    /\ codec = CodecIdle
    /\ gate = GateMounted

\* a defect: the password is compared without regard to case
SetPassword_AnyCase(password) ==
    /\ state' = [state EXCEPT !.password = password,
                              !.isAuthenticated =
                                  IF correctPassword.given /\ correctPassword.value # << >>
                                  THEN ToLowerCase(password)
                                           = ToLowerCase(correctPassword.value)
                                  ELSE TRUE,
                              !.error = NoError]
    /\ UNCHANGED << crypto, repo, correctPassword, pending,
                    rng, calls, last, tasks, feeds, files, codec, gate >>

\* setPassword(password)
SetPassword(password) ==
    /\ state' = [state EXCEPT !.password = password,
                              !.isAuthenticated = verifyPassword(password),
                              !.error = NoError]
    /\ UNCHANGED << crypto, repo, correctPassword, pending,
                    rng, calls, last, tasks, feeds, files, codec, gate >>

\* decryptFile(encryptedPath, password) up to its first await.  A call in
\* flight carries a mark, read by no handler, that tells whether reset() was
\* called since it started
DecryptFileStarted ==
    /\ Cardinality(pending) < MaxPending
    /\ \E path \in HookPaths, password \in { <<80, 119>>, <<112, 119>> } :
          /\ \A c \in pending : c.path # path \/ c.password # password
          /\ pending' = pending \cup
                 { [path |-> path, password |-> password, stale |-> FALSE] }
    /\ state' = [state EXCEPT !.isLoading = TRUE, !.error = NoError]
    /\ UNCHANGED << crypto, repo, correctPassword,
                    rng, calls, last, tasks, feeds, files, codec, gate >>

\* the end of one decryptFile call: the state is updated and the promise
\* settles, resolved with the file or rejected with what was thrown
Completed(call, loaded) ==
    /\ pending' = pending \ { call }
    /\ state' = Settled(state, call.path, loaded)
    /\ last' = [op |-> "decryptFile", of |-> 0, at |-> 0,
                password |-> call.password, input |-> NoEnvelope,
                out |-> loaded]
    /\ UNCHANGED << crypto, repo, correctPassword,
                    rng, calls, tasks, feeds, files, codec, gate >>

\* decryptFile from its first await on
DecryptFileCompleted ==
    \E call \in pending :
        Completed(call, LoadFile(call.path, call.password, Fetch(call.path)))

\* clearError()
ClearError ==
    /\ state' = [state EXCEPT !.error = NoError]
    /\ UNCHANGED << crypto, repo, correctPassword, pending,
                    rng, calls, last, tasks, feeds, files, codec, gate >>

\* a defect: reset() spreads the previous state and keeps the decrypted files
Reset_KeepsFiles ==
    /\ state' = [state EXCEPT !.isLoading = FALSE, !.error = NoError,
                              !.password = << >>, !.isAuthenticated = FALSE]
    /\ pending' = { [c EXCEPT !.stale = TRUE] : c \in pending }
    /\ UNCHANGED << crypto, repo, correctPassword,
                    rng, calls, last, tasks, feeds, files, codec, gate >>

\* reset()
Reset ==
    /\ state' = [isLoading |-> FALSE, error |-> NoError, password |-> << >>,
                 isAuthenticated |-> FALSE, decryptedFiles |-> {}]
    /\ pending' = { [c EXCEPT !.stale = TRUE] : c \in pending }
    /\ UNCHANGED << crypto, repo, correctPassword,
                    rng, calls, last, tasks, feeds, files, codec, gate >>

NextHook ==
    \/ \E password \in HookPasswords : SetPassword(password)
    \/ DecryptFileStarted
    \/ DecryptFileCompleted
    \/ ClearError
    \/ Reset

SpecHook == InitHook /\ [][NextHook]_vars

(***************************************************************************)
(* The PasswordGate component (SpecGate).                                  *)
(***************************************************************************)
\* submit events handled in a run
MaxSubmits == 2

\* the code units String.prototype.trim removes: WhiteSpace and LineTerminator
IsWhiteSpace(c) ==
    \/ c \in {9, 10, 11, 12, 13, 32, 160, 5760, 8232, 8233, 8239, 8287, 12288, 65279}
    \/ c \in 8192..8202

RECURSIVE trimStart(_)
trimStart(s) ==
    IF s # << >> /\ IsWhiteSpace(Head(s)) THEN trimStart(Tail(s)) ELSE s

RECURSIVE trimEnd(_)
trimEnd(s) ==
    IF s # << >> /\ IsWhiteSpace(s[Len(s)])
    THEN trimEnd(SubSeq(s, 1, Len(s) - 1)) ELSE s

\* password.trim()
trim(s) == trimEnd(trimStart(s))

\* what is typed into the input: '', ' ', tab and newline, a no-break space,
\* "Pw", " Pw ", "pw", "P w" and "Pw" behind a tab
TypedPasswords ==
    { << >>, <<32>>, <<9, 10>>, <<160>>, <<80, 119>>, <<32, 80, 119, 32>>,
      <<112, 119>>, <<80, 32, 119>>, <<9, 80, 119>> }

\* the submit button: disabled={isLoading || !password.trim()}
SubmitDisabled(g) == g.isLoading \/ trim(g.password) = << >>

\* a defect: the trimmed password is handed to onUnlock
handleSubmit_Trimmed(g) ==
    IF trim(g.password) # << >>
    THEN [g EXCEPT !.unlocked = Append(@, trim(g.password)), !.submits = @ + 1]
    ELSE [g EXCEPT !.submits = @ + 1]

\* handleSubmit(e): if (password.trim()) onUnlock(password)
handleSubmit(g) ==
    IF trim(g.password) # << >>
    THEN [g EXCEPT !.unlocked = Append(@, g.password), !.submits = @ + 1]
    ELSE [g EXCEPT !.submits = @ + 1]

\* handlePasswordChange(e): the input is disabled while isLoading; the parent's
\* onErrorClear clears the error it passes down
HandlePasswordChange ==
    /\ ~gate.isLoading
    /\ \E value \in TypedPasswords :
          gate' = [gate EXCEPT !.password = value, !.error = NoError]
    /\ UNCHANGED << crypto, repo, correctPassword, state, pending, rng, calls, last, tasks, feeds, files, codec >>

\* the show / hide button: setShow(!show)
ToggleShow ==
    /\ gate' = [gate EXCEPT !.show = ~@]
    /\ UNCHANGED << crypto, repo, correctPassword, state, pending, rng, calls, last, tasks, feeds, files, codec >>

\* the parent renders the gate with other props: isLoading and error
PropsChanged ==
    /\ \E loading \in BOOLEAN, error \in { NoError, [null |-> FALSE, message |-> "Incorrect password"] } :
          /\ gate.isLoading # loading \/ gate.error # error
          /\ gate' = [gate EXCEPT !.isLoading = loading, !.error = error]
    /\ UNCHANGED << crypto, repo, correctPassword, state, pending, rng, calls, last, tasks, feeds, files, codec >>

\* the submit button is clicked, or Enter is pressed in the input: the form is
\* submitted only while the button is enabled
ClickSubmit ==
    /\ gate.submits < MaxSubmits
    /\ ~SubmitDisabled(gate)
    /\ gate' = handleSubmit(gate)
    /\ UNCHANGED << crypto, repo, correctPassword, state, pending, rng, calls, last, tasks, feeds, files, codec >>

\* a submit event dispatched on the form (form.requestSubmit(), or a test's
\* fireEvent.submit): handleSubmit runs whatever the button's state
DispatchSubmit ==
    /\ gate.submits < MaxSubmits
    /\ gate' = handleSubmit(gate)
    /\ UNCHANGED << crypto, repo, correctPassword, state, pending, rng, calls, last, tasks, feeds, files, codec >>

NextGate ==
    \/ HandlePasswordChange
    \/ ToggleShow
    \/ PropsChanged
    \/ ClickSubmit
    \/ DispatchSubmit

SpecGate == Init /\ [][NextGate]_vars

(***************************************************************************)
(* Claims about encrypt and decrypt.                                       *)
(***************************************************************************)
\* C1: decrypting an envelope as encrypt returned it, with the password it was
\* encrypted with, returns exactly the plaintext bytes (the empty plaintext
\* included).
C1_RoundTrip ==
    (last.op = "decrypt" /\ last.password = calls[last.of].password)
        => (last.out.ok /\ last.out.value = calls[last.of].plaintext)

C1_Witness ==
    /\ last.op = "decrypt"
    /\ last.password = calls[last.of].password
    /\ calls[last.of].plaintext # << >>
    /\ last.out = Ok(calls[last.of].plaintext)

\* C2: decrypting with any other password (a different case or added leading
\* or trailing whitespace included) raises AuthenticationFailed and returns no
\* plaintext.
C2_WrongPassword ==
    (last.op = "decrypt" /\ last.password # calls[last.of].password)
        => Rejected(last.out)

C2_Witness ==
    /\ last.op = "decrypt"
    /\ calls[last.of].password = <<80, 119>>
    /\ last.password = <<80, 119, 32>>
    /\ Rejected(last.out)

\* C3 as stated: a flipped bit at any position of the 24-byte nonce makes
\* decrypt raise AuthenticationFailed.
C3_AnyNonceBit == (last.op = "nonceFlipped") => Rejected(last.out)

\* C3 as amended: a flipped bit in any of the first 12 bytes of the nonce (the
\* bytes that are the cipher's IV) makes decrypt raise AuthenticationFailed.
C3_IvBit ==
    (last.op = "nonceFlipped" /\ last.at <= IV_LENGTH) => Rejected(last.out)

C3_Witness ==
    /\ last.op = "nonceFlipped"
    /\ last.at = IV_LENGTH
    /\ Rejected(last.out)

\* C4: a flipped bit at any position of the ciphertext, payload or tag, makes
\* decrypt raise AuthenticationFailed.
C4_CiphertextBit == (last.op = "ciphertextFlipped") => Rejected(last.out)

\* a payload byte (not the tag) was flipped and decrypt rejected
C4_Witness ==
    /\ last.op = "ciphertextFlipped"
    /\ Len(last.input.ciphertext) > TAG_LENGTH
    /\ last.at = 1
    /\ Rejected(last.out)

\* C5: removing any positive number of trailing bytes of the ciphertext, down
\* to the empty ciphertext, makes decrypt raise AuthenticationFailed.
C5_Truncated == (last.op = "truncated") => Rejected(last.out)

\* the whole ciphertext was removed and decrypt rejected
C5_Witness ==
    /\ last.op = "truncated"
    /\ last.input.ciphertext = << >>
    /\ calls[last.of].plaintext # << >>
    /\ Rejected(last.out)

(***************************************************************************)
(* Claims about repeated and concurrent encrypt calls (SpecCalls).         *)
(***************************************************************************)
\* C9: any two encrypt calls that have returned, also with the same plaintext
\* and password, returned envelopes with different salts, different nonces and
\* different ciphertexts (the random source not repeating a value).
C9_FreshEnvelopes ==
    \A i, j \in 1..Len(tasks) :
        (i # j /\ tasks[i].pc = "done" /\ tasks[j].pc = "done")
            => /\ tasks[i].env.salt # tasks[j].env.salt
               /\ tasks[i].env.nonce # tasks[j].env.nonce
               /\ tasks[i].env.ciphertext # tasks[j].env.ciphertext

\* two calls with the same plaintext and password have both returned
C9_Witness ==
    \E i, j \in 1..Len(tasks) :
        /\ i # j
        /\ tasks[i].pc = "done" /\ tasks[j].pc = "done"
        /\ tasks[i].plaintext = tasks[j].plaintext
        /\ tasks[i].password = tasks[j].password

\* C10: no two calls hand the cipher the same (derived key, 12-byte IV) pair,
\* in whatever order the calls' steps interleave.
C10_NoPairReuse ==
    \A i, j \in 1..Len(feeds) : i # j => feeds[i] # feeds[j]

\* two calls with the same password fed the cipher the same IV (their nonces
\* agree on the first 12 bytes), the second one fed before the first returned
C10_Witness ==
    /\ Len(feeds) = 2
    /\ feeds[1][2] = feeds[2][2]
    /\ \A t \in 1..Len(tasks) : tasks[t].pc = "encrypting"
    /\ tasks[1].password = tasks[2].password

(***************************************************************************)
(* Claims about the serialized form.                                       *)
(***************************************************************************)
\* C6: decryptFromJSON on a malformed text (the text {}, a record with a
\* null or missing field, text that is no JSON, a record with a field that is
\* not base64) fails with the MalformedEnvelope kind, at the parsing stage,
\* before any key derivation or cipher operation, never with
\* AuthenticationFailed.
C6_MalformedRejected ==
    (last.op = "decryptDamaged" /\ last.input \in MalformedTexts)
        => /\ ~last.out.ok
           /\ last.out.stage = "parse"
           /\ ErrorKind(last.out) = "MalformedEnvelope"

\* C7: decryptFromJSON of the text encryptToJSON wrote for a text plaintext,
\* with the same password, returns exactly that text.
C7_TextRoundTrip ==
    (/\ last.op = "decryptFromJSON"
     /\ files[last.of].plaintext.type = "string"
     /\ last.password = files[last.of].password)
        => last.out = Ok(files[last.of].plaintext.val)

\* C8: an envelope encoded by encryptedDataToBase64 and decoded by
\* base64ToEncryptedData comes back with the same ciphertext, nonce and salt
\* bytes, directly and through JSON.stringify / JSON.parse.
C8_CodecRoundTrip ==
    /\ codec.stage # "unparsed"
    /\ codec.stage \in {"decoded", "decodedFromText"} => codec.back = Ok(codec.env)

\* an envelope with an empty field and a field holding 255, 251 and 0 has gone
\* through text and back
C8_Witness ==
    /\ codec.stage = "decodedFromText"
    /\ codec.env.ciphertext = << >>
    /\ codec.env.salt = <<255, 251, 0>>
    /\ codec.back.ok

(***************************************************************************)
(* Claims about the envelope format and the failure modes.                 *)
(***************************************************************************)
\* C11: an envelope that differs from the one encrypt returned only in nonce
\* bytes 12..23 gets the same decrypt result under the same password (whatever
\* the password), and the nonce that comes back from the codec is, all 24
\* bytes, the array the random source returned to encrypt.
C11_TailInert ==
    /\ last.op = "tailChanged" => last.out = decrypt(calls[last.of].env, last.password)
    /\ codec.stage = "decoded" =>
          /\ codec.back.ok
          /\ codec.back.value.nonce \in rng
          /\ codec.back.value.nonce = codec.env.nonce

\* a decrypt with the right password succeeded on an envelope whose nonce
\* differs from the stored one behind the IV, and that stored envelope went
\* through the codec
C11_Witness ==
    /\ last.op = "tailChanged"
    /\ last.input.nonce # calls[last.of].env.nonce
    /\ last.password = calls[last.of].password
    /\ last.out.ok
    /\ codec.stage = "decoded"

\* C12: every envelope encrypt returns has a salt of 16 bytes and a nonce of
\* 24 bytes, and the envelope parsed back from its base64 form or from its
\* serialized text has these lengths too.
C12_Lengths ==
    /\ \A c \in 1..Len(calls) :
          /\ Len(calls[c].env.salt) = SALT_LENGTH
          /\ Len(calls[c].env.nonce) = NONCE_LENGTH
    /\ codec.stage \in {"decoded", "decodedFromText"} =>
          /\ codec.back.ok
          /\ Len(codec.back.value.salt) = SALT_LENGTH
          /\ Len(codec.back.value.nonce) = NONCE_LENGTH

\* an envelope of a one-byte plaintext was serialized to text and parsed back
C12_Witness ==
    /\ codec.stage = "decodedFromText"
    /\ codec.back.ok
    /\ Len(calls) = 1
    /\ Len(calls[1].plaintext) = 1
    /\ codec.env = calls[1].env

C14_Unavailable ==
    crypto # "full" =>
        /\ last.op \in {"encrypt", "decrypt"} =>
              /\ last.out = Unavailable
              /\ ErrorKind(last.out) = "CryptoUnavailable"
        /\ calls = << >>
        /\ rng = {}

\* encrypt was called where crypto has no subtle
C14_Witness ==
    /\ crypto = "noSubtle"
    /\ last.op = "encrypt"
    /\ ~last.out.ok

\* C15: however the steps of concurrent encrypt and decrypt calls interleave,
\* a finished encrypt call has returned the envelope encrypt gives alone for
\* its plaintext, password and random draws, a finished decrypt call the
\* outcome decrypt gives alone for its envelope and password; a result, once
\* returned, stays as it is, and no step of a call changes the locals (key,
\* salt, nonce, result) of another call.
C15_AsAlone ==
    [][\A t \in 1..Len(tasks) :
          /\ (tasks[t].pc = "encrypting" /\ tasks'[t].pc = "done") =>
                Ok(tasks'[t].env) = encrypt(Bytes(tasks[t].plaintext), tasks[t].password,
                                            tasks[t].salt, tasks[t].nonce)
          /\ (tasks[t].pc = "dDecrypting" /\ tasks'[t].pc = "opened") =>
                tasks'[t].out = decrypt(tasks[t].env, tasks[t].password)
          /\ tasks[t].pc \in {"done", "opened"} => tasks'[t] = tasks[t]
          /\ \A u \in 1..Len(tasks) :
                (t # u /\ tasks'[t] # tasks[t]) => tasks'[u] = tasks[u]]_vars

\* an encrypt call and a decrypt call under the same password have both
\* finished, the decrypt having started before the encrypt had its key and
\* finished after it
C15_Witness ==
    /\ Len(tasks) = 2
    /\ tasks[1].pc = "done"
    /\ tasks[2].pc = "opened"
    /\ tasks[2].out.ok
    /\ tasks[1].password = tasks[2].password

\* C16: a decryptFromJSON call that fails for a wrong password leaves the
\* serialized text as it was, and the next call on it with the right password
\* returns the original plaintext.
C16_RetryKeepsData ==
    [][(/\ last.op = "decryptFromJSON"
        /\ ~last.out.ok
        /\ last'.op = "decryptFromJSON"
        /\ last'.password = files[last'.of].password)
           => /\ files' = files
              /\ last'.input = files[last'.of].json
              /\ last'.out = Ok(files[last'.of].plaintext.val)]_vars

\* C17: decryptFromJSON of the text written for a byte plaintext B returns a
\* string of as many characters as B has bytes, the code of its character i
\* being byte i of B.
C17_OneCharPerByte ==
    last.op = "decryptBinary" =>
        LET B == files[last.of].plaintext.val
        IN  /\ last.out.ok
            /\ Len(last.out.value) = Len(B)
            /\ \A i \in 1..Len(B) : last.out.value[i] = B[i]

\* the text written for the one byte 255 was decrypted
C17_Witness ==
    /\ last.op = "decryptBinary"
    /\ files[last.of].plaintext = Bytes(<<255>>)
    /\ last.out.ok

(***************************************************************************)
(* Claims about the pre-commit script and hook (SpecScript).               *)
(***************************************************************************)
\* C18: once the hook has passed, every unencrypted content file has its
\* .enc file next to it, and the website's decryptFromJSON, given that file's
\* text and the password the script used, returns the original content.
C18_WebsiteDecrypts ==
    (repo.hook = "passed") =>
        \A f \in Originals(repo.work) :
            \E e \in repo.work :
                /\ e.path = EncPathOf(f.path)
                /\ decryptFromJSON(e.content, repo.password)
                       = Ok(FromCharCodes(f.content))

\* C19: when the hook passes for a commit in which an unencrypted content file
\* is staged, the index afterwards holds the file's .enc path and no longer
\* holds the path of the original.
C19_OriginalsUnstaged ==
    [][ (repo.hook = "idle" /\ repo'.hook = "passed") =>
            \A f \in Originals(repo.work) :
                f.path \in repo.staged =>
                    /\ EncPathOf(f.path) \in repo'.staged
                    /\ f.path \notin repo'.staged ]_vars

(***************************************************************************)
(* Claims about the useDecryption hook (SpecHook).                         *)
(***************************************************************************)
\* C20: from any hook state, setPassword(p) yields password = p and
\* error = null, leaves isLoading and decryptedFiles as they were and, when
\* useDecryption was called with a correctPassword, sets isAuthenticated to
\* true exactly when p is that correctPassword.
C20_SetPassword ==
    [][ \A p \in HookPasswords :
            SetPassword(p) =>
                /\ state'.password = p
                /\ state'.error = NoError
                /\ correctPassword.given =>
                       (state'.isAuthenticated <=> (p = correctPassword.value))
                /\ state'.isLoading = state.isLoading
                /\ state'.decryptedFiles = state.decryptedFiles ]_vars

\* C20, amended: as C20, except that isAuthenticated is true exactly when p is
\* the correctPassword only for a correctPassword that is not empty; with the
\* empty string as correctPassword it is true for every p.
C20_SetPasswordNonEmpty ==
    [][ \A p \in HookPasswords :
            SetPassword(p) =>
                /\ state'.password = p
                /\ state'.error = NoError
                /\ (correctPassword.given /\ correctPassword.value # << >>) =>
                       (state'.isAuthenticated <=> (p = correctPassword.value))
                /\ (correctPassword.given /\ correctPassword.value = << >>) =>
                       state'.isAuthenticated
                /\ state'.isLoading = state.isLoading
                /\ state'.decryptedFiles = state.decryptedFiles ]_vars

\* setPassword("Pw") has authenticated against the correctPassword "Pw" while
\* a file was decrypted and another decryptFile call was in flight
C20_Witness ==
    /\ correctPassword = [given |-> TRUE, value |-> <<80, 119>>]
    /\ state.password = <<80, 119>>
    /\ state.isAuthenticated
    /\ state.isLoading
    /\ state.decryptedFiles # {}
    /\ state.error = NoError

\* C21: from every reachable hook state, reset() yields the state of the first
\* render: isLoading false, error null, password empty, isAuthenticated false,
\* decryptedFiles empty.
C21_ResetToInitial ==
    [][ Reset =>
            /\ state'.isLoading = FALSE
            /\ state'.error.null
            /\ state'.password = << >>
            /\ state'.isAuthenticated = FALSE
            /\ state'.decryptedFiles = {}
            /\ state' = InitialState ]_vars

\* reset() was called while a decryptFile call was in flight and after a file
\* had been decrypted, and nothing has touched the state since
C21_Witness ==
    /\ \E c \in pending : c.stale
    /\ last.op = "decryptFile" /\ last.out.ok
    /\ state = InitialState

\* C22: a decryptFile call whose fetch response is not ok, or whose
\* decryptFromJSON rejects (as it does for a wrong password), ends with
\* isLoading false and error set to the message of the failure, the promise
\* rejected with that failure, and password, isAuthenticated and decryptedFiles
\* as they were; for a response that is not ok the failure is the one thrown
\* for the fetch, 'Failed to load encrypted file: ...', and none of
\* decryptFromJSON.
C22_FailureSurfaced ==
    [][ \A call \in pending :
            (pending' = pending \ { call }) =>
                /\ ~Fetch(call.path).ok =>
                       /\ ~last'.out.ok
                       /\ last'.out.stage = "fetch"
                       /\ last'.out.error = "Failed to load encrypted file: Not Found"
                /\ (\E i \in 1..Len(files) :
                        /\ Fetch(call.path).ok
                        /\ Fetch(call.path).text = files[i].json
                        /\ call.password # files[i].password) =>
                       /\ ~last'.out.ok
                       /\ last'.out.stage = "cipher"
                /\ ~last'.out.ok =>
                       /\ last'.op = "decryptFile"
                       /\ state'.isLoading = FALSE
                       /\ state'.error = [null |-> FALSE, message |-> last'.out.error]
                       /\ state'.password = state.password
                       /\ state'.isAuthenticated = state.isAuthenticated
                       /\ state'.decryptedFiles = state.decryptedFiles ]_vars

\* a decryptFile call with a wrong password has failed at the cipher while a
\* file was decrypted and a password was set, and left both in place
C22_Witness ==
    /\ last.op = "decryptFile"
    /\ ~last.out.ok /\ last.out.stage = "cipher"
    /\ state.error = [null |-> FALSE, message |-> last.out.error]
    /\ ~state.isLoading
    /\ state.decryptedFiles # {}
    /\ state.password = <<80, 119>> /\ state.isAuthenticated

(***************************************************************************)
(* Claims about modified envelopes (SpecModified).                         *)
(***************************************************************************)
\* C23: for an envelope obtained from E = encrypt(P, W) by changing its
\* ciphertext, its nonce or its salt, and for any password, decrypt fails or
\* returns exactly P.
C23_FailsOrOriginal ==
    (last.op = "modified" /\ last.out.ok) =>
        last.out.value = calls[1].plaintext

\* C23, amended: decrypt of such an envelope fails unless its ciphertext, the
\* first 12 bytes of its nonce and its salt are together those of an envelope
\* that encrypt returned for the password given, and then it returns exactly
\* the plaintext of that envelope: P when they are those of E.
C23_FailsOrSealed ==
    (last.op = "modified" /\ last.out.ok) =>
        \E c \in 1..Len(calls) :
            /\ calls[c].password = last.password
            /\ calls[c].env.ciphertext = last.input.ciphertext
            /\ IvOf(calls[c].env.nonce) = IvOf(last.input.nonce)
            /\ calls[c].env.salt = last.input.salt
            /\ last.out.value = calls[c].plaintext

\* decrypt has returned P for an envelope that differs from E behind the first
\* 12 bytes of the nonce
C23_Witness ==
    /\ last.op = "modified"
    /\ last.out.ok
    /\ last.input.nonce # calls[1].env.nonce
    /\ last.input.ciphertext = calls[1].env.ciphertext
    /\ last.out.value = calls[1].plaintext
    /\ Len(calls[1].plaintext) > 0

(***************************************************************************)
(* Claims about the stages of decryptFromJSON (SpecJSON).                  *)
(***************************************************************************)
\* the texts whose three fields are base64 and that are no sealed envelope
StructurallyValid ==
    \/ last.op = "decryptTampered"
    \/ last.op = "decryptDamaged" /\ last.input \in HollowTexts

\* C24: a serialized envelope whose three fields are present and valid base64
\* but that is no sealed envelope (all fields empty, or the ciphertext
\* tampered) passes JSON.parse and base64ToEncryptedData without error, and
\* decryptFromJSON rejects it at the cipher step, returning no value.
C24_StageSeparation ==
    StructurallyValid =>
        /\ JsonParse(last.input).ok
        /\ base64ToEncryptedData(JsonParse(last.input).value).ok
        /\ ~last.out.ok
        /\ last.out.stage = "cipher"
        /\ last.out.value = << >>

C24_Witness ==
    /\ last.op = "decryptTampered"
    /\ last.password = files[last.of].password
    /\ last.input # files[last.of].json
    /\ base64ToEncryptedData(JsonParse(last.input).value).ok
    /\ ~last.out.ok
    /\ last.out.stage = "cipher"

(***************************************************************************)
(* Claims about the length of the ciphertext (Spec).                       *)
(***************************************************************************)
\* C25: for a plaintext of n bytes the ciphertext field encrypt returns has
\* n + 16 bytes, and it is exactly the AES-GCM output (body and tag) under the
\* derived key and the IV: no byte of the 24-byte nonce is left in it and no
\* cipher byte is lost.
C25_CiphertextLength ==
    \A c \in 1..Len(calls) :
        LET data == DataOf(Bytes(calls[c].plaintext))
            env  == calls[c].env
            key  == deriveKey(calls[c].password, Given(env.salt), << >>).value.key
        IN  /\ Len(env.ciphertext) = Len(data) + TAG_LENGTH
            /\ env.ciphertext = AesGcmEncrypt(key, IvOf(env.nonce), data)

C25_Witness ==
    /\ Len(calls) >= 1
    /\ Len(calls[1].plaintext) = MaxPlainLen
    /\ Len(calls[1].env.ciphertext) = MaxPlainLen + TAG_LENGTH
    /\ Len(calls[1].env.nonce) = NONCE_LENGTH

(***************************************************************************)
(* Claims about overlapping decryptFile calls (SpecHook).                  *)
(***************************************************************************)
\* C26: isLoading is true in every state in which at least one decryptFile
\* call has started and has not yet completed, overlapping calls included.
C26_LoadingWhilePending == (pending # {}) => state.isLoading

\* C27: a decryptFile call that was already in flight when reset() was called
\* does not write its file or its error into the state when it completes, so
\* that decryptedFiles and error stay as reset left them until a call started
\* after the reset completes.
C27_StaleCallSilent ==
    [][\A call \in pending :
          (call.stale /\ pending' = pending \ { call }) =>
              /\ state'.decryptedFiles = state.decryptedFiles
              /\ state'.error = state.error]_vars

\* C28: a decryptFile call that completes successfully puts its own file at its
\* path and leaves every entry of another path in place, so that overlapping
\* successful calls for different paths end with an entry for each of the
\* paths; there is never more than one entry for a path.
C28_EntriesKept ==
    [][\A call \in pending :
          (pending' = pending \ { call } /\ last'.out.ok) =>
              /\ last'.out.value.path = call.path
              /\ last'.out.value \in state'.decryptedFiles
              /\ \A f \in state.decryptedFiles :
                     f.path # call.path => f \in state'.decryptedFiles
              /\ \A f, g \in state'.decryptedFiles : f.path = g.path => f = g]_vars

\* two calls for different paths have completed and both entries are present
C28_Witness ==
    /\ pending = {}
    /\ last.op = "decryptFile" /\ last.out.ok
    /\ \E f, g \in state.decryptedFiles : f.path = PathA /\ g.path = PathB
    /\ Cardinality(state.decryptedFiles) = 2

\* C29: when useDecryption was called without a correctPassword, setPassword(p)
\* sets isAuthenticated to true for every p, the empty string included; only
\* reset() turns isAuthenticated from true to false, so that it is false only
\* while no password was set since the first render or the last reset; and
\* decryptFile does not look at isAuthenticated: a call with the right password
\* for a served file succeeds whether isAuthenticated is true or false, and
\* leaves isAuthenticated as it was.
C29_NoCorrectPassword ==
    [][ ~correctPassword.given =>
            /\ \A p \in HookPasswords : SetPassword(p) => state'.isAuthenticated
            /\ (state.isAuthenticated /\ ~state'.isAuthenticated) => Reset
            /\ ~state'.isAuthenticated => state'.password = << >>
            /\ \A call \in pending :
                   (pending' = pending \ { call }) =>
                       /\ state'.isAuthenticated = state.isAuthenticated
                       /\ (call.password = <<80, 119>> /\ Fetch(call.path).ok)
                              => last'.out.ok ]_vars

\* without a correctPassword, setPassword('') has authenticated, and a file was
\* decrypted
C29_Witness ==
    /\ ~correctPassword.given
    /\ state.isAuthenticated
    /\ state.password = << >>
    /\ state.decryptedFiles # {}

(***************************************************************************)
(* Claims about the PasswordGate component (SpecGate).                     *)
(***************************************************************************)
\* the password holds a code unit that is not whitespace
HasNonWhiteSpace(s) == \E i \in 1..Len(s) : ~IsWhiteSpace(s[i])

\* C30: a submit of the form calls onUnlock exactly when the typed password
\* holds at least one character that is not whitespace, and passes the password
\* exactly as typed; a password of whitespace only never reaches onUnlock.
C30_Submit ==
    [][ (gate'.submits = gate.submits + 1) =>
            /\ HasNonWhiteSpace(gate.password) =>
                   gate'.unlocked = Append(gate.unlocked, gate.password)
            /\ ~HasNonWhiteSpace(gate.password) => gate'.unlocked = gate.unlocked
            /\ \A i \in 1..Len(gate'.unlocked) : HasNonWhiteSpace(gate'.unlocked[i]) ]_vars

\* " Pw " was submitted and reached onUnlock with its spaces, and a submit of a
\* whitespace-only password called nothing
C30_Witness ==
    /\ gate.submits = 2
    /\ gate.unlocked = << <<32, 80, 119, 32>> >>
    /\ gate.password = <<9, 10>>

=============================================================================
